---- MODULE Spec2Model ----
(***************************************************************************)
(* A model of reportinator_server: the gift-wrap protocol handler, the     *)
(* actors of the moderation pipeline and their output ports, and the chat  *)
(* callback handler.                                                       *)
(*                                                                         *)
(* Cryptography is abstracted: a key pair is a name, an encryption is the  *)
(* public key it targets, a signature is whether it verifies.              *)
(***************************************************************************)
EXTENDS Integers, Sequences, FiniteSets, TLC

VARIABLES
    \* ---- GiftUnwrapper (actors/gift_unwrapper.rs)
    gu_keys,               \* State.keys: the keys GiftUnwrapper decrypts with
    gu_subscribers,        \* actors subscribed to message_parsed_output_port
    gu_status,             \* "running", or "failed" once handle returned Err
    gu_last,               \* the message handled last and what handle did with it
    gu_discarded,          \* how many UnwrapEvent messages were discarded so far
    gu_handled,            \* how many UnwrapEvent messages were handled so far
    event_received_error,  \* the metrics counter of that name
    \* ---- the wrapping utility and the domain-level extraction
    wrapped,               \* the last as_gift_wrap call: its arguments and result
    extracted,             \* the last extract_report_request call on `wrapped`
    seal,                  \* the last random_time_in_last_two_days call: the clock,
                           \* the random draw and the timestamp chosen
    \* ---- EventEnqueuer and SlackWriter (actors/event_enqueuer.rs, slack_writer.rs)
    delivered,             \* the requests sent on message_parsed_output_port
    ee_inbox,              \* EventEnqueuer's inbox: Enqueue(report_request) messages
    sw_inbox,              \* SlackWriter's inbox: Write(report_request) messages
    publish_calls,         \* the requests PubsubPort::publish_event was called with
    post_calls,            \* the requests SlackClientPort::write_message was called with
    events_enqueued,       \* the metrics counters of these names
    events_enqueued_error,
    slack_write_message,
    slack_write_message_error,
    \* ---- RelayEventDispatcher and its output port (actors/relay_event_dispatcher.rs)
    worker_forwarded,      \* how many events the subscription worker has forwarded
    rd_inbox,              \* RelayEventDispatcher's inbox
    port_log,              \* the values sent on event_received_output_port, oldest first
    event_received,        \* the metrics counter of that name
    sub_status,            \* per subscriber: "none", "requested", "active" or "closed"
    sub_start,             \* per subscriber: position in port_log its subscription starts at
    sub_cursor,            \* per subscriber: position in port_log it reads next
    sub_lagged,            \* per subscriber: whether it ever fell behind the buffer
    sub_inbox,             \* per subscriber: the messages delivered to its inbox
    \* ---- the chat callback handler (adapters/http_server/slack_interactions_route.rs)
    cb_pc,                 \* "idle", "rejected", "reporter_lookup", "reported_lookup"
                           \* or "responded"
    cb_count,              \* how many callbacks were received so far
    cb_payload,            \* the payload of the callback being handled
    cb_parsed,             \* what parse_slack_action made of it
    cb_reporter_nip05_markdown,
    cb_reported_nip05_markdown,
    cb_published,          \* the reports cast to the Supervisor for this callback
    cb_response,           \* the message posted to the response_url, if any
    cb_status,             \* the HTTP status the endpoint answers with
    cb_body,               \* the body of that answer
    cb_get_nip05,          \* how many GetNip05 calls the Supervisor got for this callback
    cb_pressed,            \* the request and the button of the message the callback comes from
    supervisor_publish,    \* how many Publish messages the Supervisor was sent in all
    \* ---- SlackClientAdapter and the chat channel (adapters/slack_client_adapter.rs)
    wm_pc,                 \* write_message: "idle", "reporter_lookup" or "post"
    wm_count,              \* how many write_message calls were started so far
    wm_request,            \* the request write_message was called with
    wm_reported_link,      \* reported_pubkey_or_nip05_link
    wm_reporter_link,      \* reporter_pubkey_or_nip05_link
    chat_posted,           \* the message in the channel and the request it was made for
    \* ---- RelayEventDispatcher's connection and its subscription worker
    \*      (actors/relay_event_dispatcher.rs, adapters/nostr_service.rs)
    dsp_status,            \* "running", or "failed" once handle returned Err
    dsp_pc,                \* "idle", "stopping" (in stop()), "lookup" or "send"
    dsp_current,           \* the arm that awaits stop(): "Connect" or "Reconnect"
    dsp_inbox,             \* the dispatcher's inbox
    dsp_casts,             \* how many messages were cast to the dispatcher so far
    dsp_counter,           \* the metrics counters of the handler's arms
    dsp_attempt,           \* how the last Connect or Reconnect arm ended: "none" yet,
                           \* "failed" or "succeeded"
    nostr_publish,         \* the results of the calls of NostrPort::publish so far
    subscription_task_manager,  \* State.subscription_task_manager: None or
                           \* Some(w), the manager of worker w
    workers,               \* per subscription task: its status, whether its token
                           \* is cancelled, the Reconnects it sent, why it ended
    relay_connected,       \* whether some relay of the client is connected
    reply_port,            \* the reply port of the GetNip05 in progress: "none",
                           \* "open" or "closed"
    reply_last,            \* what became of the last GetNip05's reply
    \* ---- the Supervisor's wiring (actors/supervisor.rs)
    pre_start_pc,          \* how many of its casts pre_start has made
    worker_spawned,        \* whether the dispatcher's Connect arm spawned the worker
    unwrapped_with,        \* the sets of subscribers GiftUnwrapper had when it
                           \* handled an event
    \* ---- the Supervisor's handlers and start_server's ServiceManager
    \*      (actors/supervisor.rs, service_manager.rs, main.rs)
    main_pc,               \* start_server: "spawn_actor", "spawn_service", "listen"
                           \* (in the select!), "stop" (in stop()) or "returned"
    sv_status,             \* the Supervisor: "unspawned", "running", "stopping",
                           \* "stopped", or "failed" once handle returned Err
    sv_inbox,              \* the Supervisor's inbox
    sv_events,             \* the supervision events it has not handled yet
    sv_sent,               \* how many messages were sent to the Supervisor so far
    sv_last,               \* the message handled last and what handle did with it
    children,              \* per child actor: "running", "terminated" or "failed"
    actor_panicked,        \* the metrics counter of that name
    root_token,            \* whether the manager's token is cancelled
    http_server,           \* the HTTP task: "unspawned", "starting", "serving",
                           \* "failed" or "ended"
    cleaner,               \* the cleaning task: "empty", "holding" (the Supervisor)
                           \* or "done"
    signalled              \* whether SIGINT or SIGTERM arrived

gu_vars == <<gu_keys, gu_subscribers, gu_status, gu_last, gu_discarded, gu_handled,
             event_received_error>>
wrap_vars == <<wrapped, extracted, seal>>
sink_vars == <<delivered, ee_inbox, sw_inbox, publish_calls, post_calls,
               events_enqueued, events_enqueued_error,
               slack_write_message, slack_write_message_error>>

port_vars == <<worker_forwarded, rd_inbox, port_log, event_received,
               sub_status, sub_start, sub_cursor, sub_lagged, sub_inbox>>

cb_vars == <<cb_pc, cb_count, cb_payload, cb_parsed, cb_reporter_nip05_markdown,
             cb_reported_nip05_markdown, cb_published, cb_response, cb_status,
             cb_body, cb_get_nip05, cb_pressed, supervisor_publish>>

chat_vars == <<wm_pc, wm_count, wm_request, wm_reported_link, wm_reporter_link,
               chat_posted>>

connection_vars == <<dsp_status, dsp_pc, dsp_current, dsp_inbox, dsp_casts,
                     dsp_counter, dsp_attempt, nostr_publish,
                     subscription_task_manager,
                     workers, relay_connected, reply_port, reply_last>>

wiring_vars == <<pre_start_pc, worker_spawned, unwrapped_with>>

supervision_vars == <<main_pc, sv_status, sv_inbox, sv_events, sv_sent, sv_last,
                      children, actor_panicked, root_token,
                      http_server, cleaner, signalled>>

vars == <<gu_vars, wrap_vars, sink_vars, port_vars, cb_vars, chat_vars,
          connection_vars, wiring_vars, supervision_vars>>

\* what an action of one component leaves alone in the others
outside_gift_unwrapper == <<sink_vars, port_vars, cb_vars, chat_vars, connection_vars, wiring_vars,
    supervision_vars>>
outside_sinks == <<gu_vars, wrap_vars, port_vars, cb_vars, chat_vars, connection_vars, wiring_vars,
    supervision_vars>>
outside_port == <<gu_vars, wrap_vars, sink_vars, cb_vars, chat_vars, connection_vars, wiring_vars,
    supervision_vars>>
outside_callback == <<gu_vars, wrap_vars, sink_vars, port_vars, chat_vars, connection_vars, wiring_vars,
    supervision_vars>>
outside_chat == <<gu_vars, wrap_vars, sink_vars, port_vars, cb_vars, connection_vars, wiring_vars,
    supervision_vars>>
outside_connection == <<gu_vars, wrap_vars, sink_vars, port_vars, cb_vars, chat_vars,
                       wiring_vars, supervision_vars>>

-----------------------------------------------------------------------------
(* Bounds of the model *)

MaxHandled == 3
MaxDelivered == 2
MaxEvents == 11
MaxCallbacks == 2
MaxMessages == 1
MaxWorkers == 3
MaxCasts == 3
MaxRequests == 2
MaxChildEnds == 2

-----------------------------------------------------------------------------
(* Keys.  Keys::public_key maps a key pair to its public key. *)

ServiceKeys == "service_sk"
KeyPairs == {"service_sk", "stranger_sk", "alice_sk", "bob_sk"}
ReporterKeyPairs == {"alice_sk", "bob_sk"}
ReceiverKeyPairs == {"service_sk", "stranger_sk"}

public_key(keys) ==
    CASE keys = "service_sk" -> "service_pk"
      [] keys = "stranger_sk" -> "stranger_pk"
      [] keys = "alice_sk" -> "alice_pk"
      [] keys = "bob_sk" -> "bob_pk"

ReporterPubkeys == {public_key(k) : k \in ReporterKeyPairs}
ReceiverPubkeys == {public_key(k) : k \in ReceiverKeyPairs}
ReportedPubkeys == {"mallory_pk"}

KindGiftWrap == 1059
KindTextNote == 1
Kinds == {KindGiftWrap, KindTextNote}

-----------------------------------------------------------------------------
(* Domain objects *)

None == <<>>
Some(x) == <<x>>

\* ReportTarget: Event(Event) | Pubkey(PublicKey).  An event is its id, its
\* author and whether Event::verify succeeds on it.
EventTarget(id, author, verifies) ==
    [type |-> "Event", id |-> id, pubkey |-> author, verifies |-> verifies]
PubkeyTarget(pubkey) ==
    [type |-> "Pubkey", id |-> "none", pubkey |-> pubkey, verifies |-> FALSE]

ReportTargets ==
    {EventTarget("e1", p, v) : p \in ReportedPubkeys, v \in BOOLEAN}
        \cup {PubkeyTarget(p) : p \in ReportedPubkeys}

ReporterTexts == {None, Some("This is hateful. Report it!")}

ReportRequest_new(target, reporter_pubkey, reporter_text) ==
    [target |-> target, reporter_pubkey |-> reporter_pubkey,
     reporter_text |-> reporter_text]

ReportRequests ==
    {ReportRequest_new(t, p, x) :
        t \in ReportTargets, p \in ReporterPubkeys, x \in ReporterTexts}

NoRequest == ReportRequest_new(PubkeyTarget("none"), "none", None)

ReportTarget_pubkey(target) == target.pubkey

valid_by_signature_only(report_request) == report_request.target.verifies

valid(report_request) ==
    IF report_request.target.type = "Event"
    THEN report_request.target.verifies
    ELSE TRUE

-----------------------------------------------------------------------------
(* JSON bodies.  A body is what serde sees: the flattened target key, the  *)
(* reporterPubkey key and the reporterText key, each present or absent;    *)
(* or text that is no JSON object of that shape at all.                    *)

Absent == "absent"
NoTarget == PubkeyTarget(Absent)

Json(target, reporterPubkey, reporterText) ==
    [wellformed |-> TRUE, target |-> target, reporterPubkey |-> reporterPubkey,
     reporterText |-> reporterText]
MalformedJson ==
    [wellformed |-> FALSE, target |-> NoTarget, reporterPubkey |-> Absent,
     reporterText |-> None]

JsonBodies ==
    {Json(t, p, x) : t \in ReportTargets, p \in ReporterPubkeys \cup {Absent},
                     x \in ReporterTexts}
        \cup {MalformedJson}

Ok(v) == [ok |-> TRUE, value |-> v]
Err(e) == [ok |-> FALSE, value |-> e]

\* PublicKey::to_string: the hex text of a public key
PublicKey_to_hex(pubkey) ==
    CASE pubkey = "service_pk" -> "5e"
      [] pubkey = "stranger_pk" -> "57"
      [] pubkey = "alice_pk" -> "a1"
      [] pubkey = "bob_pk" -> "b0"
      [] pubkey = "mallory_pk" -> "3a"

\* PublicKey::from_hex
PublicKey_from_hex(hex) ==
    CASE hex = "5e" -> Ok("service_pk")
      [] hex = "57" -> Ok("stranger_pk")
      [] hex = "a1" -> Ok("alice_pk")
      [] hex = "b0" -> Ok("bob_pk")
      [] hex = "3a" -> Ok("mallory_pk")
      [] OTHER -> Err("invalid hex public key")

\* serde_json::to_string(&ReportRequest)
ReportRequest_as_json_without_text(r) == Json(r.target, r.reporter_pubkey, None)

ReportRequest_as_json(r) == Json(r.target, r.reporter_pubkey, r.reporter_text)

\* serde_json::from_str::<ReportRequest>: reporterPubkey is a required field
ReportRequest_from_str(json) ==
    IF ~json.wellformed \/ json.target = NoTarget \/ json.reporterPubkey = Absent
    THEN Err("parse")
    ELSE Ok(ReportRequest_new(json.target, json.reporterPubkey, json.reporterText))

\* ReportRequestRumorContent::parse: the target and the optional text;
\* a reporterPubkey key in the body is ignored
ReportRequestRumorContent_parse(json) ==
    IF ~json.wellformed \/ json.target = NoTarget
    THEN Err("parse")
    ELSE Ok([target |-> json.target, reporter_text |-> json.reporterText])

into_report_request(content, pubkey) ==
    ReportRequest_new(content.target, pubkey, content.reporter_text)

-----------------------------------------------------------------------------
(* Gift wraps.  A kind-1059 event encrypted to outer_to, holding a seal    *)
(* signed by seal_signer and encrypted to seal_to, holding the unsigned    *)
(* rumor (its pubkey and its content).                                     *)

Event_gift_wrap(kind, outer_to, seal_signer, seal_to, rumor_pubkey, content) ==
    [kind |-> kind, outer_to |-> outer_to, seal_signer |-> seal_signer,
     seal_to |-> seal_to, rumor_pubkey |-> rumor_pubkey, content |-> content]

\* Every event a relay may deliver.  The rumor's pubkey is the seal's signer.
GiftWraps ==
    {Event_gift_wrap(k, o, s, t, s, c) :
        k \in Kinds, o \in ReceiverPubkeys, s \in ReporterPubkeys,
        t \in ReceiverPubkeys, c \in JsonBodies}

NoEvent == Event_gift_wrap(KindTextNote, Absent, Absent, Absent, Absent, MalformedJson)

\* nostr's nip59 extract_rumor: the kind check, then the two decryptions
extract_rumor_without_kind_check(keys, event) ==
    IF event.outer_to # public_key(keys) \/ event.seal_to # public_key(keys)
    THEN Err("decrypt")
    ELSE Ok([sender |-> event.seal_signer,
             rumor |-> [pubkey |-> event.rumor_pubkey, content |-> event.content]])

extract_rumor(keys, event) ==
    IF event.kind # KindGiftWrap
    THEN Err("not a gift wrap")
    ELSE IF event.outer_to # public_key(keys) \/ event.seal_to # public_key(keys)
    THEN Err("decrypt")
    ELSE Ok([sender |-> event.seal_signer,
             rumor |-> [pubkey |-> event.rumor_pubkey, content |-> event.content]])

\* GiftWrap::new (actors/messages.rs, domain_objects.rs): no check of the kind
GiftWrap_new(event) == Ok(event)

\* TryFrom<Event> for GiftWrappedReportRequest
GiftWrappedReportRequest_try_from(event) ==
    IF event.kind = KindGiftWrap THEN Ok(event) ELSE Err("Event kind is not 1059")

\* GiftWrappedReportRequest::extract_report_request
GiftWrappedReportRequest_extract_report_request(event, keys) ==
    LET unwrapped_gift == extract_rumor(keys, event) IN
    IF ~unwrapped_gift.ok THEN Err("Couldn't extract rumor")
    ELSE LET content == ReportRequestRumorContent_parse(unwrapped_gift.value.rumor.content) IN
         IF ~content.ok THEN Err("Failed to parse report request rumor content")
         ELSE LET report_request ==
                      into_report_request(content.value, unwrapped_gift.value.rumor.pubkey) IN
              IF ~valid(report_request)
              THEN Err("not a valid gift wrapped report request")
              ELSE Ok(report_request)

\* GiftWrap::extract_report_request (domain_objects.rs): the request is
\* deserialized whole from the rumor's content
GiftWrap_extract_report_request(event, keys) ==
    LET unwrapped_gift == extract_rumor(keys, event) IN
    IF ~unwrapped_gift.ok THEN Err("Couldn't extract rumor")
    ELSE LET report_request == ReportRequest_from_str(unwrapped_gift.value.rumor.content) IN
         IF ~report_request.ok THEN Err("Failed to parse report request")
         ELSE IF ~valid(report_request.value) THEN Err("Invalid report request")
         ELSE Ok(report_request.value)

\* AsGiftWrap::as_gift_wrap
as_gift_wrap_unchecked(report_request, reporter_keys, receiver_pubkey) ==
    GiftWrappedReportRequest_try_from(
        Event_gift_wrap(KindGiftWrap, receiver_pubkey, public_key(reporter_keys),
                        receiver_pubkey, public_key(reporter_keys),
                        ReportRequest_as_json(report_request)))

as_gift_wrap(report_request, reporter_keys, receiver_pubkey) ==
    IF report_request.reporter_pubkey # public_key(reporter_keys)
    THEN Err("Reporter public key doesn't match the provided keys")
    ELSE GiftWrappedReportRequest_try_from(
             Event_gift_wrap(KindGiftWrap, receiver_pubkey, public_key(reporter_keys),
                             receiver_pubkey, public_key(reporter_keys),
                             ReportRequest_as_json(report_request)))

-----------------------------------------------------------------------------
(* GiftUnwrapper *)

GiftUnwrapperSubscribers == {"event_enqueuer", "slack_writer"}

\* What GiftUnwrapper::handle does with UnwrapEvent(gift_wrap): the messages
\* it sends on message_parsed_output_port, the handler's result and what it
\* adds to event_received_error.
GiftUnwrapper_handle_propagating(gift_wrap, keys) ==
    LET unwrapped_gift == extract_rumor(keys, gift_wrap) IN
    IF ~unwrapped_gift.ok
    THEN [sent |-> <<>>, result |-> "Err", errors |-> 0]
    ELSE LET parsed == ReportRequest_from_str(unwrapped_gift.value.rumor.content) IN
         IF parsed.ok
         THEN IF ~valid(parsed.value)
              THEN [sent |-> <<>>, result |-> "Err", errors |-> 0]
              ELSE [sent |-> <<parsed.value>>, result |-> "Ok", errors |-> 0]
         ELSE [sent |-> <<>>, result |-> "Err", errors |-> 0]

GiftUnwrapper_handle(gift_wrap, keys) ==
    LET unwrapped_gift == extract_rumor(keys, gift_wrap) IN
    IF ~unwrapped_gift.ok
    THEN [sent |-> <<>>, result |-> "Ok", errors |-> 0]
    ELSE LET parsed == ReportRequest_from_str(unwrapped_gift.value.rumor.content) IN
         IF parsed.ok
         THEN IF ~valid(parsed.value)
              THEN [sent |-> <<>>, result |-> "Ok", errors |-> 0]
              ELSE [sent |-> <<parsed.value>>, result |-> "Ok", errors |-> 0]
         ELSE [sent |-> <<>>, result |-> "Ok", errors |-> 0]

NotHandled == [msg |-> NoEvent, sent |-> <<>>, result |-> "none"]

\* GiftUnwrapperMessage::UnwrapEvent(gift_wrap)
UnwrapEvent(event) ==
    /\ gu_status = "running"
    /\ gu_handled < MaxHandled
    /\ LET gift_wrap == GiftWrap_new(event).value
           done == GiftUnwrapper_handle(gift_wrap, gu_keys) IN
       /\ gu_last' = [msg |-> gift_wrap, sent |-> done.sent, result |-> done.result]
       /\ gu_discarded' = IF done.sent = <<>> THEN gu_discarded + 1 ELSE gu_discarded
       /\ event_received_error' = event_received_error + done.errors
       /\ gu_status' = IF done.result = "Ok" THEN "running" ELSE "failed"
    /\ gu_handled' = gu_handled + 1
    /\ UNCHANGED <<gu_keys, gu_subscribers, wrapped, extracted, seal>>
    /\ UNCHANGED outside_gift_unwrapper

\* GiftUnwrapperMessage::SubscribeToEventUnwrapped(subscriber)
SubscribeToEventUnwrapped(subscriber) ==
    /\ gu_status = "running"
    /\ subscriber \notin gu_subscribers
    /\ gu_subscribers' = gu_subscribers \cup {subscriber}
    /\ UNCHANGED <<gu_keys, gu_status, gu_last, gu_discarded, gu_handled,
                   event_received_error, wrapped, extracted, seal>>
    /\ UNCHANGED outside_gift_unwrapper

NotWrapped == [request |-> NoRequest, keys |-> "none", receiver |-> "none",
               result |-> Err(NoEvent)]
NotExtracted == [keys |-> "none", result |-> Err(NoRequest)]

\* report_request.as_gift_wrap(reporter_keys, receiver_pubkey), as the
\* giftwrapper utility and the tests call it
AsGiftWrap(report_request, reporter_keys, receiver_keys) ==
    /\ LET made == as_gift_wrap(report_request, reporter_keys, public_key(receiver_keys)) IN
       wrapped' = [request |-> report_request, keys |-> reporter_keys,
                   receiver |-> receiver_keys,
                   result |-> IF made.ok THEN made ELSE Err(NoEvent)]
    /\ extracted' = NotExtracted
    /\ UNCHANGED <<gu_keys, gu_subscribers, gu_status, gu_last, gu_discarded,
                   gu_handled, event_received_error, seal>>
    /\ UNCHANGED outside_gift_unwrapper

\* create_private_dm_message(report_request, reporter_keys, receiver_pubkey),
\* the older helper of gift_unwrapper.rs: the same check, the bare event
create_private_dm_message(report_request, reporter_keys, receiver_pubkey) ==
    IF report_request.reporter_pubkey # public_key(reporter_keys)
    THEN Err("Reporter public key doesn't match the provided keys")
    ELSE Ok(Event_gift_wrap(KindGiftWrap, receiver_pubkey, public_key(reporter_keys),
                            receiver_pubkey, public_key(reporter_keys),
                            ReportRequest_as_json(report_request)))

CreatePrivateDmMessage(report_request, reporter_keys, receiver_keys) ==
    /\ LET made == create_private_dm_message(report_request, reporter_keys,
                                             public_key(receiver_keys)) IN
       wrapped' = [request |-> report_request, keys |-> reporter_keys,
                   receiver |-> receiver_keys,
                   result |-> IF made.ok THEN made ELSE Err(NoEvent)]
    /\ extracted' = NotExtracted
    /\ UNCHANGED <<gu_keys, gu_subscribers, gu_status, gu_last, gu_discarded,
                   gu_handled, event_received_error, seal>>
    /\ UNCHANGED outside_gift_unwrapper

\* gift_wrap.extract_report_request(keys) on the gift wrap made last
ExtractReportRequest(keys) ==
    /\ wrapped.result.ok
    /\ LET got == GiftWrappedReportRequest_extract_report_request(wrapped.result.value, keys) IN
       extracted' = [keys |-> keys,
                     result |-> IF got.ok THEN got ELSE Err(NoRequest)]
    /\ UNCHANGED <<gu_keys, gu_subscribers, gu_status, gu_last, gu_discarded,
                   gu_handled, event_received_error, wrapped, seal>>
    /\ UNCHANGED outside_gift_unwrapper

\* two_days of random_time_in_last_two_days, in seconds
TwoDays == 172800

\* the clock readings and the random draws the timestamp is computed for;
\* both are u64 in the code, the values here are those around the modulus
\* and around zero, a present-day clock and the largest value the checker
\* can hold
Clocks == {0, 1, 172798, 172799, 172800, 172801, 345600, 1700000000,
           2000000000, 2147483647}
Draws == {0, 1, 172799, 172800, 172801, 345599, 345600, 1000000007,
          2147310848, 2147483647}

NotSealed == [now |-> 0, draw |-> 0, created_at |-> 0, called |-> FALSE]

\* Timestamp - u64: the subtraction of the timestamp type, which stops at zero
Timestamp_sub(timestamp, seconds) ==
    IF seconds > timestamp THEN 0 ELSE timestamp - seconds

\* the same call without the reduction of the draw
random_time_unreduced(now, draw) ==
    Timestamp_sub(now, draw)

\* random_time_in_last_two_days: now - (rand::random::<u64>() % two_days)
random_time_in_last_two_days(now, draw) ==
    Timestamp_sub(now, draw % TwoDays)

\* one call of random_time_in_last_two_days, with what Timestamp::now() and
\* rand::random() returned in it
RandomTimeInLastTwoDays(now, draw) ==
    /\ seal' = [now |-> now, draw |-> draw,
                created_at |-> random_time_in_last_two_days(now, draw),
                called |-> TRUE]
    /\ UNCHANGED <<gu_vars, wrapped, extracted>>
    /\ UNCHANGED outside_gift_unwrapper

\* the gift wrap made last reaches GiftUnwrapper
UnwrapWrapped ==
    /\ wrapped.result.ok
    /\ UnwrapEvent(wrapped.result.value)

-----------------------------------------------------------------------------
(* EventEnqueuer and SlackWriter, the two subscribers of GiftUnwrapper *)

\* what GiftUnwrapper sends on its port: requests that passed valid()
SinkRequests == {r \in ReportRequests : valid(r)}

\* EventEnqueuer::handle goes on to publish_event unless the target is a Pubkey
EventEnqueuer_publishes_everything(report_request) == TRUE

EventEnqueuer_publishes(report_request) ==
    report_request.target.type # "Pubkey"

\* SlackWriter::handle goes on to write_message unless the target is an Event
SlackWriter_writes(report_request) ==
    report_request.target.type # "Event"

\* state.message_parsed_output_port.send(report_request), both sinks subscribed
SendMessageParsed(report_request) ==
    /\ Len(delivered) < MaxDelivered
    /\ delivered' = Append(delivered, report_request)
    /\ ee_inbox' = Append(ee_inbox, report_request)
    /\ sw_inbox' = Append(sw_inbox, report_request)
    /\ UNCHANGED <<publish_calls, post_calls, events_enqueued, events_enqueued_error,
                   slack_write_message, slack_write_message_error>>
    /\ UNCHANGED outside_sinks

\* EventEnqueuerMessage::Enqueue(report_request); published is whether
\* publish_event returns Ok
Enqueue(published) ==
    /\ ee_inbox # <<>>
    /\ LET report_request == Head(ee_inbox) IN
       IF ~EventEnqueuer_publishes(report_request)
       THEN UNCHANGED <<publish_calls, events_enqueued, events_enqueued_error>>
       ELSE /\ publish_calls' = Append(publish_calls, report_request)
            /\ IF published
               THEN /\ events_enqueued' = events_enqueued + 1
                    /\ UNCHANGED events_enqueued_error
               ELSE /\ events_enqueued_error' = events_enqueued_error + 1
                    /\ UNCHANGED events_enqueued
    /\ ee_inbox' = Tail(ee_inbox)
    /\ UNCHANGED <<delivered, sw_inbox, post_calls,
                   slack_write_message, slack_write_message_error>>
    /\ UNCHANGED outside_sinks

\* SlackClientAdapter::write_message returns Ok whether the message got to
\* the channel or not: post_message only logs the response
SlackClientAdapter_write_message(posted) == TRUE

\* SlackWriterMessage::Write(report_request); posted is whether the post of
\* write_message got the message to the channel
Write(posted) ==
    /\ sw_inbox # <<>>
    /\ LET report_request == Head(sw_inbox) IN
       IF ~SlackWriter_writes(report_request)
       THEN UNCHANGED <<post_calls, slack_write_message, slack_write_message_error>>
       ELSE /\ post_calls' = Append(post_calls, report_request)
            /\ IF SlackClientAdapter_write_message(posted)
               THEN /\ slack_write_message' = slack_write_message + 1
                    /\ UNCHANGED slack_write_message_error
               ELSE /\ slack_write_message_error' = slack_write_message_error + 1
                    /\ UNCHANGED slack_write_message
    /\ sw_inbox' = Tail(sw_inbox)
    /\ UNCHANGED <<delivered, ee_inbox, publish_calls,
                   events_enqueued, events_enqueued_error>>
    /\ UNCHANGED outside_sinks

-----------------------------------------------------------------------------
(* RelayEventDispatcher and the output port its subscribers listen to *)

\* "ractor has a hardcoded broadcast buffer size of 10 items"
BroadcastBufferSize == 10

\* the actors that subscribe to event_received_output_port: GiftUnwrapper in
\* the supervisor's wiring, a TestActor in the tests
PortSubscribers == {"gift_unwrapper", "test_actor"}

\* what the forwarder of a subscription does once the value it reads next is
\* no longer in the buffer: the subscription ends, or it goes on from the
\* oldest value still held
LagOutcomes == {"closed", "skipped"}

EventReceivedMessage(event) == [type |-> "EventReceived", value |-> event]
SubscribeMessage(subscriber) == [type |-> "SubscribeToEventReceived", value |-> subscriber]

\* O::from(msg): the conversion of a port value into the subscriber's own
\* message type
From_as_unwrap_event(subscriber, value) == [type |-> "UnwrapEvent", value |-> value]

From(subscriber, value) ==
    IF subscriber = "gift_unwrapper"
    THEN [type |-> "UnwrapEvent", value |-> value]
    ELSE [type |-> "EventHappened", value |-> value]

\* state.event_received_output_port.send(event)
OutputPort_send_in_front(log, value) == <<value>> \o log

OutputPort_send(log, value) == Append(log, value)

\* the subscription worker: cast!(dispatcher_actor, EventReceived(event)) for
\* each event the relay delivers; events are numbered in the order they arrive
ForwardEvent ==
    /\ worker_forwarded < MaxEvents
    /\ worker_forwarded' = worker_forwarded + 1
    /\ rd_inbox' = Append(rd_inbox, EventReceivedMessage(worker_forwarded + 1))
    /\ UNCHANGED <<port_log, event_received, sub_status, sub_start, sub_cursor,
                   sub_lagged, sub_inbox>>
    /\ UNCHANGED outside_port

\* cast!(event_dispatcher, SubscribeToEventReceived(Box::new(subscriber)))
CastSubscribe(subscriber) ==
    /\ sub_status[subscriber] = "none"
    /\ sub_status' = [sub_status EXCEPT ![subscriber] = "requested"]
    /\ rd_inbox' = Append(rd_inbox, SubscribeMessage(subscriber))
    /\ UNCHANGED <<worker_forwarded, port_log, event_received, sub_start, sub_cursor,
                   sub_lagged, sub_inbox>>
    /\ UNCHANGED outside_port

\* RelayEventDispatcherMessage::SubscribeToEventReceived(subscriber)
SubscribeToEventReceived ==
    /\ rd_inbox # <<>>
    /\ Head(rd_inbox).type = "SubscribeToEventReceived"
    /\ LET subscriber == Head(rd_inbox).value IN
       /\ sub_status' = [sub_status EXCEPT ![subscriber] = "active"]
       /\ sub_start' = [sub_start EXCEPT ![subscriber] = Len(port_log) + 1]
       /\ sub_cursor' = [sub_cursor EXCEPT ![subscriber] = Len(port_log) + 1]
    /\ rd_inbox' = Tail(rd_inbox)
    /\ UNCHANGED <<worker_forwarded, port_log, event_received, sub_lagged, sub_inbox>>
    /\ UNCHANGED outside_port

\* RelayEventDispatcherMessage::EventReceived(event)
EventReceived ==
    /\ rd_inbox # <<>>
    /\ Head(rd_inbox).type = "EventReceived"
    /\ port_log' = OutputPort_send(port_log, Head(rd_inbox).value)
    /\ event_received' = event_received + 1
    /\ rd_inbox' = Tail(rd_inbox)
    /\ UNCHANGED <<worker_forwarded, sub_status, sub_start, sub_cursor,
                   sub_lagged, sub_inbox>>
    /\ UNCHANGED outside_port

\* the value a subscription reads next was overwritten in the buffer
Overwritten(subscriber) ==
    Len(port_log) - sub_cursor[subscriber] >= BroadcastBufferSize

\* the forwarder of a subscription takes the next value from the port and
\* casts its conversion to the subscriber
PortDeliver(subscriber) ==
    /\ sub_status[subscriber] = "active"
    /\ sub_cursor[subscriber] <= Len(port_log)
    /\ ~Overwritten(subscriber)
    /\ sub_inbox' = [sub_inbox EXCEPT ![subscriber] =
           Append(@, From(subscriber, port_log[sub_cursor[subscriber]]))]
    /\ sub_cursor' = [sub_cursor EXCEPT ![subscriber] = @ + 1]
    /\ UNCHANGED <<worker_forwarded, rd_inbox, port_log, event_received,
                   sub_status, sub_start, sub_lagged>>
    /\ UNCHANGED outside_port

\* the forwarder of a subscription finds that it fell behind the buffer
PortLagged(subscriber, outcome) ==
    /\ sub_status[subscriber] = "active"
    /\ Overwritten(subscriber)
    /\ sub_lagged' = [sub_lagged EXCEPT ![subscriber] = TRUE]
    /\ IF outcome = "closed"
       THEN /\ sub_status' = [sub_status EXCEPT ![subscriber] = "closed"]
            /\ UNCHANGED sub_cursor
       ELSE /\ sub_cursor' = [sub_cursor EXCEPT ![subscriber] =
                                  Len(port_log) - BroadcastBufferSize + 1]
            /\ UNCHANGED sub_status
    /\ UNCHANGED <<worker_forwarded, rd_inbox, port_log, event_received,
                   sub_start, sub_inbox>>
    /\ UNCHANGED outside_port

-----------------------------------------------------------------------------
(* Moderation categories and moderated reports *)

\* the variants of enum ModerationCategory
ModerationCategories ==
    {"Hate", "HateThreatening", "Harassment", "HarassmentThreatening",
     "SelfHarm", "SelfHarmIntent", "SelfHarmInstructions",
     "Sexual", "SexualMinors", "Violence", "ViolenceGraphic"}

\* the strings that FromStr for ModerationCategory accepts
ModerationCategoryLabels ==
    {"hate", "hate/threatening", "harassment", "harassment/threatening",
     "self-harm", "self-harm/intent", "self-harm/instructions",
     "sexual", "sexual/minors", "violence", "violence/graphic"}

\* a FromStr that reads a label as the variant of the part before its slash
ModerationCategory_from_str_by_prefix(input) ==
    CASE input = "hate" -> Ok("Hate")
      [] input = "hate/threatening" -> Ok("Hate")
      [] input = "harassment" -> Ok("Harassment")
      [] input = "harassment/threatening" -> Ok("Harassment")
      [] input = "self-harm" -> Ok("SelfHarm")
      [] input = "self-harm/intent" -> Ok("SelfHarm")
      [] input = "self-harm/instructions" -> Ok("SelfHarm")
      [] input = "sexual" -> Ok("Sexual")
      [] input = "sexual/minors" -> Ok("Sexual")
      [] input = "violence" -> Ok("Violence")
      [] input = "violence/graphic" -> Ok("Violence")
      [] OTHER -> Err("Invalid moderation category")

\* FromStr for ModerationCategory
ModerationCategory_from_str(input) ==
    CASE input = "hate" -> Ok("Hate")
      [] input = "hate/threatening" -> Ok("HateThreatening")
      [] input = "harassment" -> Ok("Harassment")
      [] input = "harassment/threatening" -> Ok("HarassmentThreatening")
      [] input = "self-harm" -> Ok("SelfHarm")
      [] input = "self-harm/intent" -> Ok("SelfHarmIntent")
      [] input = "self-harm/instructions" -> Ok("SelfHarmInstructions")
      [] input = "sexual" -> Ok("Sexual")
      [] input = "sexual/minors" -> Ok("SexualMinors")
      [] input = "violence" -> Ok("Violence")
      [] input = "violence/graphic" -> Ok("ViolenceGraphic")
      [] OTHER -> Err("Invalid moderation category")

\* Display for ModerationCategory, which the chat template uses for the
\* action_id of a category's button: the category's label
ModerationCategory_to_string(category) ==
    CASE category = "Hate" -> "hate"
      [] category = "HateThreatening" -> "hate/threatening"
      [] category = "Harassment" -> "harassment"
      [] category = "HarassmentThreatening" -> "harassment/threatening"
      [] category = "SelfHarm" -> "self-harm"
      [] category = "SelfHarmIntent" -> "self-harm/intent"
      [] category = "SelfHarmInstructions" -> "self-harm/instructions"
      [] category = "Sexual" -> "sexual"
      [] category = "SexualMinors" -> "sexual/minors"
      [] category = "Violence" -> "violence"
      [] category = "ViolenceGraphic" -> "violence/graphic"

\* Result::ok
Result_ok(result) == IF result.ok THEN Some(result.value) ELSE None

\* ModerationCategory::nip56_report_type
nip56_report_type(category) ==
    CASE category = "Sexual" -> "nudity"
      [] category = "SexualMinors" -> "illegal"
      [] OTHER -> "other"

\* ModerationCategory::description
ModerationCategory_description(category) ==
    CASE category = "Hate" -> "Content that expresses, incites, or promotes hate based on race, gender, ethnicity, religion, nationality, sexual orientation, disability status, or caste. Hateful content aimed at non-protected groups (e.g., chess players) is harassment."
      [] category = "HateThreatening" -> "Hateful content that also includes violence or serious harm towards the targeted group based on race, gender, ethnicity, religion, nationality, sexual orientation, disability status, or caste."
      [] category = "Harassment" -> "Content that expresses, incites, or promotes harassing language towards any target."
      [] category = "HarassmentThreatening" -> "Harassment content that also includes violence or serious harm towards any target."
      [] category = "SelfHarm" -> "Content that promotes, encourages, or depicts acts of self-harm, such as suicide, cutting, and eating disorders."
      [] category = "SelfHarmIntent" -> "Content where the speaker expresses that they are engaging or intend to engage in acts of self-harm, such as suicide, cutting, and eating disorders."
      [] category = "SelfHarmInstructions" -> "Content that encourages performing acts of self-harm, such as suicide, cutting, and eating disorders, or that gives instructions or advice on how to commit such acts."
      [] category = "Sexual" -> "Content meant to arouse sexual excitement, such as the description of sexual activity, or that promotes sexual services (excluding sex education and wellness)."
      [] category = "SexualMinors" -> "Sexual content that includes an individual who is under 18 years old."
      [] category = "Violence" -> "Content that depicts death, violence, or physical injury."
      [] category = "ViolenceGraphic" -> "Content that depicts death, violence, or physical injury in graphic detail."

\* ModerationCategory::nip69
nip69(category) ==
    CASE category = "Hate" -> "IH"
      [] category = "HateThreatening" -> "HC-bhd"
      [] category = "Harassment" -> "IL-har"
      [] category = "HarassmentThreatening" -> "HC-bhd"
      [] category = "SelfHarm" -> "HC-bhd"
      [] category = "SelfHarmIntent" -> "HC-bhd"
      [] category = "SelfHarmInstructions" -> "HC-bhd"
      [] category = "Sexual" -> "NS"
      [] category = "SexualMinors" -> "IL-csa"
      [] category = "Violence" -> "VI"
      [] category = "ViolenceGraphic" -> "VI"

\* the NIP-56 report types (nostr's Report), by their tag text
Reports == {"nudity", "malware", "profanity", "illegal", "spam", "impersonation", "other"}

\* report_description
report_description(report) ==
    CASE report = "nudity" -> "Depictions of nudity, porn, or sexually explicit content."
      [] report = "malware" -> "Virus, trojan horse, worm, robot, spyware, adware, back door, ransomware, rootkit, kidnapper, etc."
      [] report = "profanity" -> "Profanity, hateful speech, or other offensive content."
      [] report = "illegal" -> "Content that may be illegal in some jurisdictions."
      [] report = "spam" -> "Spam."
      [] report = "impersonation" -> "Someone pretending to be someone else."
      [] report = "other" -> "For reports that don't fit in the above categories."

KindReporting == 1984

\* a set_tags that makes the p tag only
set_tags_for_pubkey_only(reported_pubkey, reported_event_id, category) ==
    <<<<"p", reported_pubkey, category>>>>

\* ModeratedReport::set_tags: Tag::public_key_report, then Tag::event_report
\* when there is a reported event id
set_tags(reported_pubkey, reported_event_id, category) ==
    LET pubkey_tag == <<"p", reported_pubkey, category>> IN
    IF reported_event_id = None
    THEN <<pubkey_tag>>
    ELSE <<pubkey_tag, <<"e", reported_event_id[1], category>>>>

\* ModeratedReport::create: an event of kind Reporting signed with the keys of
\* the service's configuration; category is a NIP-56 report type
ModeratedReport_create(reported_request, category) ==
    LET target == reported_request.target
        reported_pubkey == target.pubkey
        reported_event_id == IF target.type = "Event" THEN Some(target.id) ELSE None IN
    [kind |-> KindReporting,
     pubkey |-> public_key(ServiceKeys),
     content |-> report_description(category),
     tags |-> set_tags(reported_pubkey, reported_event_id, category)]

\* ReportRequest::report
ReportRequest_report(report_request, maybe_moderation_category) ==
    IF maybe_moderation_category = None
    THEN None
    ELSE Some(ModeratedReport_create(report_request, maybe_moderation_category[1]))

\* the report type handed to report() for the category of a callback
as_report(maybe_category) ==
    IF maybe_category = None THEN None ELSE Some(nip56_report_type(maybe_category[1]))

-----------------------------------------------------------------------------
(* The chat callback handler *)

\* the action_id of a pressed button: a category's label, "skip", or a string
\* that no button of the template carries
ActionIds == ModerationCategoryLabels \cup {"skip", "spam"}
NotHex == "not hex"
\* the text of a reportedEvent block that Event::from_json rejects
GarbageJson == [type |-> "Garbage", id |-> "none", pubkey |-> Absent, verifies |-> FALSE]

\* the fields of a block_actions payload that parse_slack_action reads
Payloads ==
    [response_url : {"https://hooks.slack.com/actions/1", Absent},
     username : {"daniel", Absent},
     action_id : ActionIds \cup {Absent},
     value : {PublicKey_to_hex("alice_pk"), NotHex, Absent},
     reportedEvent : {None, Some(EventTarget("e1", "mallory_pk", TRUE)), Some(GarbageJson)},
     reportedPubkey : {None, Some(PublicKey_to_hex("mallory_pk")), Some(NotHex)},
     reporterText : ReporterTexts]

NoPayload ==
    [response_url |-> Absent, username |-> Absent, action_id |-> Absent,
     value |-> Absent, reportedEvent |-> None, reportedPubkey |-> None,
     reporterText |-> None]

InternalServerError == "500 Internal Server Error"
BadRequest == "400 Bad Request"
StatusOk == "200 OK"
NoStatus == "none"

\* the body of the answer: nothing after Ok(()) and after the events layer's
\* error handler, the text of AppError::into_response after an error
EmptyBody == ""
NoBody == "none"
AppError_into_response(status) ==
    CASE status = InternalServerError -> "Something went wrong"
      [] status = BadRequest -> "Slack parsing error"

\* an error handler that answers as AppErrorKind::General does
slack_error_handler_general == InternalServerError

\* slack_error_handler
slack_error_handler == BadRequest

NoParse == [request |-> NoRequest, category |-> None, username |-> Absent]

\* parse_slack_action, the match on the two target blocks: the reportedPubkey
\* block is read only when there is no reportedEvent block
parse_slack_action_target(payload) ==
    LET reported_event_value == payload.reportedEvent
        reported_pubkey == payload.reportedPubkey IN
    IF reported_event_value = None
    THEN IF reported_pubkey = None
         THEN Err(BadRequest)
         ELSE LET pubkey == PublicKey_from_hex(reported_pubkey[1]) IN
              IF pubkey.ok
              THEN Ok(PubkeyTarget(pubkey.value))
              ELSE Err(BadRequest)
    ELSE IF reported_event_value = Some(GarbageJson)
         THEN Err(BadRequest)
         ELSE Ok(reported_event_value[1])

\* a decoder that gives a category only as long as no report was published
parse_slack_action_until_published(payload) ==
    LET target == parse_slack_action_target(payload)
        reporter_pubkey == PublicKey_from_hex(payload.value) IN
    IF Absent \in {payload.response_url, payload.username, payload.action_id}
    THEN Err(InternalServerError)
    ELSE IF ~target.ok \/ ~reporter_pubkey.ok THEN Err(BadRequest)
    ELSE Ok([request |-> ReportRequest_new(target.value, reporter_pubkey.value,
                                           payload.reporterText),
             category |-> IF supervisor_publish > 0
                          THEN None
                          ELSE Result_ok(ModerationCategory_from_str(payload.action_id)),
             username |-> payload.username])

\* parse_slack_action: the request and the category, or the status of the
\* error (an anyhow error is a General AppError, a slack_parsing_error is a
\* Bad Request)
parse_slack_action(payload) ==
    IF payload.response_url = Absent THEN Err(InternalServerError)
    ELSE IF payload.username = Absent THEN Err(InternalServerError)
    ELSE IF payload.action_id = Absent THEN Err(InternalServerError)
    ELSE LET target == parse_slack_action_target(payload)
             reporter_pubkey == PublicKey_from_hex(payload.value) IN
         IF ~target.ok THEN Err(BadRequest)
         ELSE IF ~reporter_pubkey.ok THEN Err(BadRequest)
         ELSE Ok([request |-> ReportRequest_new(target.value, reporter_pubkey.value,
                                                payload.reporterText),
                  category |-> Result_ok(ModerationCategory_from_str(payload.action_id)),
                  username |-> payload.username])

\* the timeouts of the two nested GetNip05 calls, in milliseconds
NjumpTimeout == 50
SupervisorNip05Timeout == 100

\* how long the dispatcher takes to answer GetNip05, and what the relays hold
Latencies == {10, 60, 150}
Metadata == {"nip05", "no nip05", "fetch failed"}

\* NostrService::get_nip05
get_nip05(metadata) == IF metadata = "nip05" THEN Some("nip05") ELSE None

\* Supervisor::handle GetNip05: the reply and when it is sent
Supervisor_GetNip05(latency, metadata) ==
    IF latency <= SupervisorNip05Timeout
    THEN [at |-> latency, reply |-> get_nip05(metadata)]
    ELSE [at |-> SupervisorNip05Timeout, reply |-> None]

NoMarkdown == [njump |-> FALSE, of |-> Absent]

\* try_njump of slack_interactions_route.rs: call_t! with NjumpTimeout, then
\* the njump link or the pubkey in backticks
try_njump(pubkey, latency, metadata) ==
    LET answer == Supervisor_GetNip05(latency, metadata) IN
    IF answer.at > NjumpTimeout
    THEN Err(InternalServerError)
    ELSE Ok([njump |-> answer.reply # None, of |-> pubkey])

slack_processed_message(username, category, report, reporter_markdown, request, reported_markdown) ==
    [text |-> "processed", by |-> username, category |-> Some(category),
     report |-> Some(report), reporter |-> reporter_markdown,
     target |-> request.target, reported |-> reported_markdown]

slack_skipped_message(username, reporter_markdown, request, reported_markdown) ==
    [text |-> "skipped", by |-> username, category |-> None,
     report |-> None, reporter |-> reporter_markdown,
     target |-> request.target, reported |-> reported_markdown]

\* a request with an empty body: the events layer finds no signed interaction
\* event in it and answers with what slack_error_handler returns; the handler
\* is not called
EmptyRequest ==
    /\ cb_pc = "idle"
    /\ cb_count < MaxCallbacks
    /\ cb_count' = cb_count + 1
    /\ cb_pc' = "rejected"
    /\ cb_status' = slack_error_handler
    /\ cb_body' = EmptyBody
    /\ UNCHANGED <<cb_payload, cb_parsed, cb_reporter_nip05_markdown,
                   cb_reported_nip05_markdown, cb_published, cb_response,
                   cb_get_nip05, cb_pressed, supervisor_publish>>
    /\ UNCHANGED outside_callback

\* no message of the channel: the callback was made up by its sender
NoPress == [request |-> NoRequest, button |-> 0]

\* slack_interaction_handler up to the first lookup: parse_slack_action, for
\* the fields of a callback that comes from pressing a button, or from nowhere
SlackInteractionOf(payload, pressed) ==
    /\ cb_pc = "idle"
    /\ cb_count < MaxCallbacks
    /\ cb_count' = cb_count + 1
    /\ cb_payload' = payload
    /\ cb_pressed' = pressed
    /\ LET parsed == parse_slack_action(payload) IN
       IF parsed.ok
       THEN /\ cb_parsed' = parsed
            /\ cb_pc' = "reporter_lookup"
            /\ UNCHANGED <<cb_status, cb_body>>
       ELSE /\ cb_parsed' = Err(NoParse)
            /\ cb_pc' = "responded"
            /\ cb_status' = parsed.value
            /\ cb_body' = AppError_into_response(parsed.value)
    /\ UNCHANGED <<cb_reporter_nip05_markdown, cb_reported_nip05_markdown,
                   cb_published, cb_response, cb_get_nip05, supervisor_publish>>
    /\ UNCHANGED outside_callback

SlackInteraction(payload) == SlackInteractionOf(payload, NoPress)

\* slack_message: try_njump(reporter_pubkey).await?
TryNjumpReporter(latency, metadata) ==
    /\ cb_pc = "reporter_lookup"
    /\ LET markdown == try_njump(cb_parsed.value.request.reporter_pubkey, latency, metadata) IN
       IF markdown.ok
       THEN /\ cb_reporter_nip05_markdown' = markdown.value
            /\ cb_pc' = "reported_lookup"
            /\ UNCHANGED <<cb_status, cb_body>>
       ELSE /\ cb_status' = markdown.value
            /\ cb_body' = AppError_into_response(markdown.value)
            /\ cb_pc' = "responded"
            /\ UNCHANGED cb_reporter_nip05_markdown
    /\ cb_get_nip05' = cb_get_nip05 + 1
    /\ UNCHANGED <<cb_count, cb_payload, cb_parsed, cb_reported_nip05_markdown,
                   cb_published, cb_response, cb_pressed, supervisor_publish>>
    /\ UNCHANGED outside_callback

\* slack_message from try_njump(target().pubkey()).await? on, then
\* send_slack_response; posted is whether the POST to the response_url is sent
TryNjumpReported(latency, metadata, posted) ==
    /\ cb_pc = "reported_lookup"
    /\ LET request == cb_parsed.value.request
           category == cb_parsed.value.category
           username == cb_parsed.value.username
           markdown == try_njump(ReportTarget_pubkey(request.target), latency, metadata)
           moderated_report == ReportRequest_report(request, as_report(category)) IN
       IF ~markdown.ok
       THEN /\ cb_status' = markdown.value
            /\ cb_body' = AppError_into_response(markdown.value)
            /\ UNCHANGED <<cb_reported_nip05_markdown, cb_published, cb_response,
                           supervisor_publish>>
       ELSE /\ cb_reported_nip05_markdown' = markdown.value
            /\ IF moderated_report # None
               THEN /\ cb_published' = Append(cb_published, moderated_report[1])
                    /\ supervisor_publish' = supervisor_publish + 1
               ELSE UNCHANGED <<cb_published, supervisor_publish>>
            /\ IF posted
               THEN /\ cb_status' = StatusOk
                    /\ cb_body' = EmptyBody
                    /\ cb_response' =
                           IF moderated_report # None
                           THEN Some(slack_processed_message(
                                    username, category[1], moderated_report[1],
                                    cb_reporter_nip05_markdown, request, markdown.value))
                           ELSE Some(slack_skipped_message(
                                    username, cb_reporter_nip05_markdown, request,
                                    markdown.value))
               ELSE /\ cb_status' = InternalServerError
                    /\ cb_body' = AppError_into_response(InternalServerError)
                    /\ UNCHANGED cb_response
    /\ cb_get_nip05' = cb_get_nip05 + 1
    /\ cb_pc' = "responded"
    /\ UNCHANGED <<cb_count, cb_payload, cb_parsed, cb_reporter_nip05_markdown,
                   cb_pressed>>
    /\ UNCHANGED outside_callback

\* the answer is returned and the handler is ready for the next callback
Respond ==
    /\ cb_pc \in {"responded", "rejected"}
    /\ cb_pc' = "idle"
    /\ cb_payload' = NoPayload
    /\ cb_parsed' = Err(NoParse)
    /\ cb_reporter_nip05_markdown' = NoMarkdown
    /\ cb_reported_nip05_markdown' = NoMarkdown
    /\ cb_published' = <<>>
    /\ cb_response' = None
    /\ cb_status' = NoStatus
    /\ cb_body' = NoBody
    /\ cb_get_nip05' = 0
    /\ cb_pressed' = NoPress
    /\ UNCHANGED <<cb_count, supervisor_publish>>
    /\ UNCHANGED outside_callback

-----------------------------------------------------------------------------
(* SlackClientAdapter and the chat channel *)

\* the timeout of the adapter's GetNip05 call, in milliseconds
SlackNjumpTimeout == 100

\* what the template shows for a key: an njump link of its nip05, the key in
\* bech32, or the key in hex
Link(form, of) == [form |-> form, of |-> of]
NoLink == Link("none", Absent)

\* SlackClientAdapter::try_njump: call_t! with SlackNjumpTimeout, which has
\* elapsed by the time the Supervisor gives up on the dispatcher
SlackClientAdapter_try_njump(pubkey, latency, metadata) ==
    LET answer == Supervisor_GetNip05(latency, metadata) IN
    IF answer.at >= SlackNjumpTimeout
    THEN Err("timeout")
    ELSE IF answer.reply # None
         THEN Ok(Link("njump", pubkey))
         ELSE Ok(Link("bech32", pubkey))

\* blocks and their elements, as the JSON of a message has them
Block(type, block_id, text, elements) ==
    [type |-> type, block_id |-> block_id, text |-> text, elements |-> elements]
Element(type, text, action_id, value, elements) ==
    [type |-> type, text |-> text, action_id |-> action_id, value |-> value,
     elements |-> elements]

\* pt!(text)
PlainText(text) == Element("plain_text", text, Absent, Absent, <<>>)

\* SlackBlockButtonElement::new(action_id, pt!(text)).with_value(value)
Button(action_id, text, value) == Element("button", text, action_id, value, <<>>)

\* the order of the category buttons in category_buttons
CategoryButtons ==
    <<"Hate", "HateThreatening", "Harassment", "HarassmentThreatening",
      "SelfHarm", "SelfHarmIntent", "SelfHarmInstructions",
      "Sexual", "SexualMinors", "Violence", "ViolenceGraphic">>

\* From<ModerationCategory> for SlackBlockButtonElement, with_value(pubkey)
SlackBlockButtonElement_from(category, pubkey) ==
    Button(ModerationCategory_to_string(category),
           ModerationCategory_to_string(category), pubkey)

\* PubkeyReportRequestMessage::category_buttons
category_buttons(report_request) ==
    LET pubkey == PublicKey_to_hex(report_request.reporter_pubkey) IN
    <<Button("skip", "Skip", pubkey)>>
        \o [i \in 1..Len(CategoryButtons) |->
               SlackBlockButtonElement_from(CategoryButtons[i], pubkey)]

\* PubkeyReportRequestMessage::render_template: two sections, a context block
\* with the id reportedPubkey, a divider and the actions block
render_template(report_request, reported_link, reporter_link) ==
    [text |-> [reporter |-> reporter_link, reported |-> reported_link],
     blocks |->
        <<Block("section", Absent, "New moderation request", <<>>),
          Block("section", Absent,
                IF report_request.reporter_text = None
                THEN ""
                ELSE report_request.reporter_text[1],
                <<>>),
          Block("context", "reportedPubkey", Absent,
                <<PlainText(PublicKey_to_hex(ReportTarget_pubkey(report_request.target)))>>),
          Block("divider", Absent, Absent, <<>>),
          Block("actions", Absent, Absent, category_buttons(report_request))>>]

NoContent == [text |-> [reporter |-> NoLink, reported |-> NoLink], blocks |-> <<>>]
NoMessage == [request |-> NoRequest, content |-> NoContent]

\* the requests SlackWriter hands to write_message
PubkeyReportRequests == {r \in ReportRequests : r.target.type = "Pubkey"}

\* write_message up to the second lookup: try_njump(target().pubkey()), with
\* the key in hex when the lookup fails
WriteMessage(report_request, latency, metadata) ==
    /\ wm_pc = "idle"
    /\ wm_count < MaxMessages
    /\ wm_count' = wm_count + 1
    /\ wm_request' = report_request
    /\ LET link == SlackClientAdapter_try_njump(
                       ReportTarget_pubkey(report_request.target), latency, metadata) IN
       wm_reported_link' =
           IF link.ok
           THEN link.value
           ELSE Link("hex", ReportTarget_pubkey(report_request.target))
    /\ wm_pc' = "reporter_lookup"
    /\ UNCHANGED <<wm_reporter_link, chat_posted>>
    /\ UNCHANGED outside_chat

\* write_message with the error of the reporter lookup returned to the caller
WriteMessageReporter_propagating(latency, metadata) ==
    /\ wm_pc = "reporter_lookup"
    /\ LET link == SlackClientAdapter_try_njump(
                       wm_request.reporter_pubkey, latency, metadata) IN
       /\ wm_reporter_link' = IF link.ok THEN link.value ELSE NoLink
       /\ wm_pc' = IF link.ok THEN "post" ELSE "idle"
       /\ wm_request' = IF link.ok THEN wm_request ELSE NoRequest
       /\ wm_reported_link' = IF link.ok THEN wm_reported_link ELSE NoLink
    /\ UNCHANGED <<wm_count, chat_posted>>
    /\ UNCHANGED outside_chat

\* write_message: try_njump(reporter_pubkey()), with the key of the target in
\* hex when the lookup fails
WriteMessageReporter(latency, metadata) ==
    /\ wm_pc = "reporter_lookup"
    /\ LET link == SlackClientAdapter_try_njump(
                       wm_request.reporter_pubkey, latency, metadata) IN
       wm_reporter_link' =
           IF link.ok
           THEN link.value
           ELSE Link("hex", ReportTarget_pubkey(wm_request.target))
    /\ wm_pc' = "post"
    /\ UNCHANGED <<wm_count, wm_request, wm_reported_link, chat_posted>>
    /\ UNCHANGED outside_chat

\* write_message: render_template and post_message, whose outcome is only
\* logged; posted is whether the message got to the channel
PostMessage(posted) ==
    /\ wm_pc = "post"
    /\ chat_posted' =
           IF posted
           THEN [request |-> wm_request,
                 content |-> render_template(wm_request, wm_reported_link,
                                             wm_reporter_link)]
           ELSE chat_posted
    /\ wm_pc' = "idle"
    /\ wm_request' = NoRequest
    /\ wm_reported_link' = NoLink
    /\ wm_reporter_link' = NoLink
    /\ UNCHANGED wm_count
    /\ UNCHANGED outside_chat

\* find_block_id: the text at elements[0].elements[0] of the first block with
\* that id that has one
find_block_id(blocks, block_id_text) ==
    LET text_of(block) ==
            IF block.elements = <<>> THEN None
            ELSE IF block.elements[1].elements = <<>> THEN None
            ELSE IF block.elements[1].elements[1].text = Absent THEN None
            ELSE Some(block.elements[1].elements[1].text)
        found == {i \in 1..Len(blocks) :
                     blocks[i].block_id = block_id_text /\ text_of(blocks[i]) # None} IN
    IF found = {}
    THEN None
    ELSE text_of(blocks[CHOOSE i \in found : \A j \in found : i <= j])

\* the block_actions event of a press of a button of a message: the message,
\* the button as actions[0], the user and the response_url
block_actions_event(content, button, username) ==
    [response_url |-> "https://hooks.slack.com/actions/1",
     username |-> username,
     actions |-> <<button>>,
     blocks |-> content.blocks]

\* parse_slack_action, the fields it reads from the event
block_actions_fields(event) ==
    [response_url |-> event.response_url,
     username |-> event.username,
     action_id |-> event.actions[1].action_id,
     value |-> event.actions[1].value,
     reportedEvent |-> find_block_id(event.blocks, "reportedEvent"),
     reportedPubkey |-> find_block_id(event.blocks, "reportedPubkey"),
     reporterText |-> find_block_id(event.blocks, "reporterText")]

\* a moderator presses the i-th button of the message in the channel and the
\* callback reaches slack_interaction_handler
PressButton(i) ==
    /\ chat_posted # NoMessage
    /\ LET buttons == chat_posted.content.blocks[5].elements IN
       /\ i \in 1..Len(buttons)
       /\ SlackInteractionOf(
              block_actions_fields(
                  block_actions_event(chat_posted.content, buttons[i], "daniel")),
              [request |-> chat_posted.request, button |-> i])

-----------------------------------------------------------------------------
(* RelayEventDispatcher's connection: the Connect, Reconnect, Publish and  *)
(* GetNip05 arms of its handler, and the subscription worker that          *)
(* handle_subscriptions spawns (NostrService::subscribe)                   *)

\* the messages cast to the dispatcher from outside it
DispatcherCasts == {"Connect", "Reconnect", "Publish", "GetNip05"}

DispatcherMessage(type) == [type |-> type]

DispatcherCounters ==
    {"connect", "connect_error", "reconnect", "reconnect_error",
     "publish", "publish_error"}

\* the counter a Connect or Reconnect arm increments, by the arm's outcome
ConnectionCounter(type, succeeded) ==
    IF type = "Connect"
    THEN IF succeeded THEN "connect" ELSE "connect_error"
    ELSE IF succeeded THEN "reconnect" ELSE "reconnect_error"

Workers == 1..MaxWorkers

\* a slot of the worker table no subscription task was spawned for yet
NoTask == [status |-> "unspawned", cancelled |-> FALSE, reconnects |-> 0,
           ended_by |-> "nothing"]

\* the task spawn_blocking_service starts: its token is a clone of the new
\* manager's token
NewTask == [status |-> "subscribing", cancelled |-> FALSE, reconnects |-> 0,
            ended_by |-> "nothing"]

Spawned == {w \in Workers : workers[w].status # "unspawned"}

\* a worker that was spawned and whose subscribe call has not returned
LiveWorkers == {w \in Workers : workers[w].status \in
                    {"subscribing", "listening", "reconnecting"}}

\* ServiceManager::stop, first half: token.cancel()
CancellationToken_cancel(table, w) == [table EXCEPT ![w].cancelled = TRUE]

\* ServiceManager::stop, second half: tracker.wait() returns once the tracked
\* task of worker w has ended
TaskTracker_wait_skipped(w) == w \in Workers

TaskTracker_wait(w) == workers[w].status \in {"ended", "panicked"}

\* spawn_subscription_task: a new ServiceManager with one blocking service,
\* the subscribe call of a clone of the nostr client
spawn_subscription_task(table) ==
    [table EXCEPT ![Cardinality(Spawned) + 1] = NewTask]

DispatcherReceives(type) ==
    /\ dsp_status = "running"
    /\ dsp_pc = "idle"
    /\ dsp_inbox # <<>>
    /\ Head(dsp_inbox).type = type

\* a cast! of one of the outside messages to the dispatcher; GetNip05 comes
\* with a reply port the caller waits on
CastToDispatcher(type) ==
    /\ dsp_status = "running"
    /\ dsp_casts < MaxCasts
    /\ type = "GetNip05" => reply_port = "none"
    /\ dsp_casts' = dsp_casts + 1
    /\ dsp_inbox' = Append(dsp_inbox, DispatcherMessage(type))
    /\ reply_port' = IF type = "GetNip05" THEN "open" ELSE reply_port
    /\ UNCHANGED <<dsp_status, dsp_pc, dsp_current, dsp_counter, dsp_attempt, nostr_publish,
                   subscription_task_manager, workers, relay_connected,
                   reply_last, outside_connection>>

\* handle_subscriptions after the spawn: the new manager replaces the old one
\* and the arm counts its success
FinishHandleSubscriptions(type, table) ==
    /\ workers' = spawn_subscription_task(table)
    /\ subscription_task_manager' = Some(Cardinality(Spawned) + 1)
    /\ dsp_counter' = [dsp_counter EXCEPT ![ConnectionCounter(type, TRUE)] = @ + 1]
    /\ dsp_attempt' = "succeeded"
    /\ dsp_pc' = "idle"
    /\ dsp_current' = "nothing"

\* the Connect and the Reconnect arm: nostr_client.connect() or reconnect(),
\* then handle_subscriptions up to the await of stop()
HandleConnection(type, connected) ==
    /\ DispatcherReceives(type)
    /\ Cardinality(Spawned) < MaxWorkers
    /\ dsp_inbox' = Tail(dsp_inbox)
    /\ IF ~connected
       THEN /\ dsp_counter' =
                   [dsp_counter EXCEPT ![ConnectionCounter(type, FALSE)] = @ + 1]
            /\ dsp_attempt' = "failed"
            /\ UNCHANGED <<dsp_pc, dsp_current, subscription_task_manager, workers>>
       ELSE IF subscription_task_manager = None
            THEN FinishHandleSubscriptions(type, workers)
            ELSE /\ workers' =
                        CancellationToken_cancel(workers, subscription_task_manager[1])
                 /\ dsp_pc' = "stopping"
                 /\ dsp_current' = type
                 /\ UNCHANGED <<dsp_counter, dsp_attempt, subscription_task_manager>>
    /\ UNCHANGED <<dsp_status, dsp_casts, nostr_publish, relay_connected,
                   reply_port, reply_last, outside_connection>>

Connect(connected) == HandleConnection("Connect", connected)

Reconnect(reconnected) == HandleConnection("Reconnect", reconnected)

\* handle_subscriptions once subscription_task_manager.stop() has returned
StopReturns ==
    /\ dsp_status = "running"
    /\ dsp_pc = "stopping"
    /\ TaskTracker_wait(subscription_task_manager[1])
    /\ FinishHandleSubscriptions(dsp_current, workers)
    /\ UNCHANGED <<dsp_status, dsp_inbox, dsp_casts, nostr_publish, relay_connected,
                   reply_port, reply_last, outside_connection>>

\* the counter the Publish arm increments, by the result of publish
PublishCounter_always_publish(published) == "publish"

PublishCounter(published) == IF published THEN "publish" ELSE "publish_error"

\* the Publish arm: nostr_client.publish(...), then one of the two counters
Publish(published) ==
    /\ DispatcherReceives("Publish")
    /\ dsp_inbox' = Tail(dsp_inbox)
    /\ nostr_publish' = Append(nostr_publish, published)
    /\ dsp_counter' = [dsp_counter EXCEPT ![PublishCounter(published)] = @ + 1]
    /\ UNCHANGED dsp_attempt
    /\ UNCHANGED <<dsp_status, dsp_pc, dsp_current, dsp_casts,
                   subscription_task_manager, workers, relay_connected,
                   reply_port, reply_last, outside_connection>>

\* the EventReceived arm, for the events the worker forwards
DispatcherEventReceived ==
    /\ DispatcherReceives("EventReceived")
    /\ dsp_inbox' = Tail(dsp_inbox)
    /\ UNCHANGED <<dsp_status, dsp_pc, dsp_current, dsp_casts, dsp_counter, dsp_attempt,
                   nostr_publish, subscription_task_manager, workers,
                   relay_connected, reply_port, reply_last, outside_connection>>

\* the GetNip05 arm up to the await of nostr_client.get_nip05
GetNip05 ==
    /\ DispatcherReceives("GetNip05")
    /\ dsp_inbox' = Tail(dsp_inbox)
    /\ dsp_pc' = "lookup"
    /\ UNCHANGED <<dsp_status, dsp_current, dsp_casts, dsp_counter, dsp_attempt, nostr_publish,
                   subscription_task_manager, workers, relay_connected,
                   reply_port, reply_last, outside_connection>>

\* get_nip05 has returned: `if !reply_port.is_closed()`
GetNip05IsClosed ==
    /\ dsp_status = "running"
    /\ dsp_pc = "lookup"
    /\ IF reply_port = "closed"
       THEN /\ dsp_pc' = "idle"
            /\ reply_port' = "none"
            /\ reply_last' = "not sent"
       ELSE /\ dsp_pc' = "send"
            /\ UNCHANGED <<reply_port, reply_last>>
    /\ UNCHANGED <<dsp_status, dsp_inbox, dsp_current, dsp_casts, dsp_counter, dsp_attempt,
                   nostr_publish, subscription_task_manager, workers,
                   relay_connected, outside_connection>>

\* `reply_port.send(maybe_nip05)?`: a send on a port whose receiver was
\* dropped is an error, and the ? returns it from the handler
GetNip05Send ==
    /\ dsp_status = "running"
    /\ dsp_pc = "send"
    /\ dsp_pc' = "idle"
    /\ reply_port' = "none"
    /\ IF reply_port = "closed"
       THEN /\ dsp_status' = "failed"
            /\ reply_last' = "send failed"
       ELSE /\ reply_last' = "answered"
            /\ UNCHANGED dsp_status
    /\ UNCHANGED <<dsp_inbox, dsp_current, dsp_casts, dsp_counter, dsp_attempt, nostr_publish,
                   subscription_task_manager, workers, relay_connected,
                   outside_connection>>

\* the caller's call_t! times out and drops the receiving end of the reply
\* port
CallerTimeout ==
    /\ reply_port = "open"
    /\ reply_port' = "closed"
    /\ UNCHANGED <<dsp_status, dsp_pc, dsp_inbox, dsp_current, dsp_casts,
                   dsp_counter, dsp_attempt, nostr_publish, subscription_task_manager, workers,
                   relay_connected, reply_last, outside_connection>>

\* the relays connect or disconnect
RelayChanges ==
    /\ relay_connected' = ~relay_connected
    /\ UNCHANGED <<dsp_status, dsp_pc, dsp_inbox, dsp_current, dsp_casts,
                   dsp_counter, dsp_attempt, nostr_publish, subscription_task_manager, workers,
                   reply_port, reply_last, outside_connection>>

\* cancel_and_reconnect: if the token is not cancelled, cancel it and await
\* the send_after of a Reconnect; then subscribe returns
cancel_and_reconnect(table, w, reason) ==
    IF table[w].cancelled
    THEN [table EXCEPT ![w].status = "ended", ![w].ended_by = "cancellation"]
    ELSE [table EXCEPT ![w].status = "reconnecting", ![w].cancelled = TRUE,
                       ![w].ended_by = reason]

WorkerUnchanged ==
    UNCHANGED <<dsp_status, dsp_pc, dsp_current, dsp_counter, dsp_attempt, nostr_publish,
                subscription_task_manager, relay_connected, reply_port,
                reply_last, outside_connection>>

\* subscribe up to client.subscribe: with all relays disconnected it does not
\* subscribe
WorkerSubscribes(w) ==
    /\ workers[w].status = "subscribing"
    /\ workers' =
           IF ~relay_connected
           THEN cancel_and_reconnect(workers, w, "all disconnected")
           ELSE [workers EXCEPT ![w].status = "listening"]
    /\ UNCHANGED <<dsp_inbox, dsp_casts>>
    /\ WorkerUnchanged

\* the closure's cast! of EventReceived with its .expect: an error of the
\* cast, which a dispatcher that no longer runs gives, panics the worker
expect_cast(table, w, status) ==
    IF status = "running" THEN table
    ELSE [table EXCEPT ![w].status = "panicked", ![w].ended_by = "panic"]

\* handle_notifications hands an event to the closure: with the token
\* cancelled the closure ends the loop, else it casts EventReceived
WorkerNotified(w) ==
    /\ workers[w].status = "listening"
    /\ IF workers[w].cancelled
       THEN /\ workers' = cancel_and_reconnect(workers, w, "cancellation")
            /\ UNCHANGED <<dsp_inbox, dsp_casts>>
       ELSE /\ dsp_status = "running" => dsp_casts < MaxCasts
            /\ workers' = expect_cast(workers, w, dsp_status)
            /\ dsp_casts' = IF dsp_status = "running" THEN dsp_casts + 1
                            ELSE dsp_casts
            /\ dsp_inbox' = IF dsp_status = "running"
                            THEN Append(dsp_inbox, DispatcherMessage("EventReceived"))
                            ELSE dsp_inbox
    /\ WorkerUnchanged

\* the state of a dispatcher that has failed is dropped, and with it the
\* subscription manager: Drop for ServiceManager cancels its token
DispatcherStateDropped ==
    /\ dsp_status = "failed"
    /\ subscription_task_manager # None
    /\ workers' = CancellationToken_cancel(workers, subscription_task_manager[1])
    /\ subscription_task_manager' = None
    /\ UNCHANGED <<dsp_status, dsp_pc, dsp_inbox, dsp_current, dsp_casts,
                   dsp_counter, dsp_attempt, nostr_publish, relay_connected,
                   reply_port, reply_last, outside_connection>>

\* the dispatcher is told to stop while idle: post_stop stops the
\* subscription manager, that is, cancels its token and awaits its tracker
PostStop ==
    /\ dsp_status = "running"
    /\ dsp_pc = "idle"
    /\ IF subscription_task_manager = None
       THEN /\ dsp_status' = "stopped"
            /\ UNCHANGED <<dsp_pc, workers>>
       ELSE /\ dsp_status' = "stopping"
            /\ dsp_pc' = "post_stop"
            /\ workers' =
                   CancellationToken_cancel(workers, subscription_task_manager[1])
    /\ UNCHANGED <<dsp_inbox, dsp_current, dsp_casts, dsp_counter, dsp_attempt,
                   nostr_publish, subscription_task_manager, relay_connected,
                   reply_port, reply_last, outside_connection>>

\* post_stop once subscription_task_manager.stop() has returned
PostStopReturns ==
    /\ dsp_status = "stopping"
    /\ dsp_pc = "post_stop"
    /\ TaskTracker_wait(subscription_task_manager[1])
    /\ dsp_status' = "stopped"
    /\ dsp_pc' = "idle"
    /\ UNCHANGED <<dsp_inbox, dsp_current, dsp_casts, dsp_counter, dsp_attempt,
                   nostr_publish, subscription_task_manager, workers,
                   relay_connected, reply_port, reply_last, outside_connection>>

\* handle_notifications returns Ok: the client was stopped by the task that
\* awaits the token, or the notifications ended by themselves
WorkerLoopEnds(w) ==
    /\ workers[w].status = "listening"
    /\ workers' = cancel_and_reconnect(workers, w, "loop ended")
    /\ UNCHANGED <<dsp_inbox, dsp_casts>>
    /\ WorkerUnchanged

\* the send_after timer fires: Reconnect is put in the dispatcher's inbox, the
\* awaited handle completes and subscribe returns
WorkerSendsReconnect(w) ==
    /\ workers[w].status = "reconnecting"
    /\ workers' = [workers EXCEPT ![w].status = "ended",
                                  ![w].reconnects = @ + 1]
    /\ dsp_inbox' = IF dsp_status = "running"
                    THEN Append(dsp_inbox, DispatcherMessage("Reconnect"))
                    ELSE dsp_inbox
    /\ UNCHANGED dsp_casts
    /\ WorkerUnchanged

-----------------------------------------------------------------------------
(* The Supervisor's wiring: pre_start casts the subscriptions and Connect,  *)
(* the dispatcher and GiftUnwrapper take them from their inboxes            *)

ConnectMessage == [type |-> "Connect", value |-> "event_dispatcher"]
SubscribeToEventUnwrappedMessage(subscriber) ==
    [type |-> "SubscribeToEventUnwrapped", value |-> subscriber]

\* the cast! calls of pre_start, in the order of the source
pre_start_casts_connect_first ==
    <<[to |-> "event_dispatcher", message |-> ConnectMessage],
      [to |-> "event_dispatcher", message |-> SubscribeMessage("gift_unwrapper")],
      [to |-> "gift_unwrapper",
       message |-> SubscribeToEventUnwrappedMessage("event_enqueuer")],
      [to |-> "gift_unwrapper",
       message |-> SubscribeToEventUnwrappedMessage("slack_writer")]>>

pre_start_casts ==
    <<[to |-> "event_dispatcher", message |-> SubscribeMessage("gift_unwrapper")],
      [to |-> "gift_unwrapper",
       message |-> SubscribeToEventUnwrappedMessage("event_enqueuer")],
      [to |-> "gift_unwrapper",
       message |-> SubscribeToEventUnwrappedMessage("slack_writer")],
      [to |-> "event_dispatcher", message |-> ConnectMessage]>>

\* pre_start makes its next cast
PreStart ==
    /\ pre_start_pc < Len(pre_start_casts)
    /\ pre_start_pc' = pre_start_pc + 1
    /\ LET cast == pre_start_casts[pre_start_pc + 1] IN
       IF cast.to = "event_dispatcher"
       THEN /\ rd_inbox' = Append(rd_inbox, cast.message)
            /\ sub_status' =
                   IF cast.message.type = "SubscribeToEventReceived"
                   THEN [sub_status EXCEPT ![cast.message.value] = "requested"]
                   ELSE sub_status
            /\ UNCHANGED sub_inbox
       ELSE /\ sub_inbox' = [sub_inbox EXCEPT ![cast.to] = Append(@, cast.message)]
            /\ UNCHANGED <<rd_inbox, sub_status>>
    /\ UNCHANGED <<worker_forwarded, port_log, event_received, sub_start,
                   sub_cursor, sub_lagged, worker_spawned, unwrapped_with>>
    /\ UNCHANGED <<gu_vars, wrap_vars, sink_vars, cb_vars, chat_vars, connection_vars,
                   supervision_vars>>

\* the Connect arm as the wiring sees it: with connect() Ok the subscription
\* worker is spawned, and only then can events be forwarded
DispatcherConnects(connect_ok) ==
    /\ rd_inbox # <<>>
    /\ Head(rd_inbox).type = "Connect"
    /\ rd_inbox' = Tail(rd_inbox)
    /\ worker_spawned' = connect_ok
    /\ UNCHANGED <<worker_forwarded, port_log, event_received, sub_status, sub_start,
                   sub_cursor, sub_lagged, sub_inbox, pre_start_pc, unwrapped_with>>
    /\ UNCHANGED <<gu_vars, wrap_vars, sink_vars, cb_vars, chat_vars, connection_vars,
                   supervision_vars>>

\* the worker forwards an event of the relay
WorkerForwardsEvent == worker_spawned /\ ForwardEvent

\* GiftUnwrapper takes the next message of its inbox: a subscription to its
\* port, or an event to unwrap, whose report request goes to the actors
\* subscribed at that moment
GiftUnwrapperReceives ==
    /\ gu_status = "running"
    /\ sub_inbox["gift_unwrapper"] # <<>>
    /\ LET message == Head(sub_inbox["gift_unwrapper"]) IN
       IF message.type = "SubscribeToEventUnwrapped"
       THEN /\ gu_subscribers' = gu_subscribers \cup {message.value}
            /\ UNCHANGED unwrapped_with
       ELSE /\ unwrapped_with' = unwrapped_with \cup {gu_subscribers}
            /\ UNCHANGED gu_subscribers
    /\ sub_inbox' = [sub_inbox EXCEPT !["gift_unwrapper"] = Tail(@)]
    /\ UNCHANGED <<gu_keys, gu_status, gu_last, gu_discarded, gu_handled,
                   event_received_error>>
    /\ UNCHANGED <<worker_forwarded, rd_inbox, port_log, event_received, sub_status,
                   sub_start, sub_cursor, sub_lagged, pre_start_pc, worker_spawned>>
    /\ UNCHANGED <<wrap_vars, sink_vars, cb_vars, chat_vars, connection_vars,
                   supervision_vars>>

-----------------------------------------------------------------------------
(* The Supervisor's handlers and the ServiceManager of start_server, which  *)
(* tracks the Supervisor actor and the HTTP server task                     *)

Children == {"event_dispatcher", "gift_unwrapper", "event_enqueuer", "slack_writer"}

\* the moderated reports the callback handler publishes, by their report type
SupervisorReports == {"spam", "other"}

SupervisorMessages ==
    [type : {"Publish"}, value : SupervisorReports]
        \cup [type : {"GetNip05"}, value : {"alice_pk"}]

\* what a GetNip05 call that does not reach the dispatcher gets, and what one
\* that reaches it can get: the dispatcher drops the reply port (its handler
\* failed), or replies after some time with what the relays hold
NoAnswer == [outcome |-> "none", latency |-> 0, metadata |-> "none"]
DispatcherAnswers ==
    {[outcome |-> "drops the reply", latency |-> 0, metadata |-> "none"]}
        \cup [outcome : {"replies"}, latency : Latencies, metadata : Metadata]

\* the timeouts of the Supervisor's callers
CallerTimeouts == {NjumpTimeout, SlackNjumpTimeout}

NoReply == [sent |-> FALSE, value |-> None]
NotForwarded == [type |-> "none", value |-> "none", result |-> "none",
                 dispatcher |-> "none", outcome |-> "none", latency |-> 0,
                 metadata |-> "none", timeout |-> 0, cast |-> <<>>,
                 reply |-> NoReply]

\* the Publish arm: cast!(event_dispatcher, Publish(report)), its error only
\* logged
Supervisor_Publish(report, dispatcher) ==
    [cast |-> <<[report |-> report, delivered |-> dispatcher = "running"]>>,
     result |-> "Ok"]

\* the GetNip05 arm: call_t! with SupervisorNip05Timeout, every error of the
\* call turned into None; when the answer is ready and the result of handle
SupervisorCall_propagating(dispatcher, outcome, latency, metadata) ==
    IF dispatcher # "running" \/ outcome # "replies"
    THEN [at |-> 0, reply |-> None, result |-> "Err"]
    ELSE [at |-> Supervisor_GetNip05(latency, metadata).at,
          reply |-> Supervisor_GetNip05(latency, metadata).reply,
          result |-> IF latency <= SupervisorNip05Timeout THEN "Ok" ELSE "Err"]

SupervisorCall(dispatcher, outcome, latency, metadata) ==
    IF dispatcher # "running" \/ outcome # "replies"
    THEN [at |-> 0, reply |-> None, result |-> "Ok"]
    ELSE [at |-> Supervisor_GetNip05(latency, metadata).at,
          reply |-> Supervisor_GetNip05(latency, metadata).reply,
          result |-> "Ok"]

\* SupervisionEvent handling: whether the Supervisor stops itself and what it
\* adds to actor_panicked
handle_supervisor_evt_stopping(event) ==
    [stop |-> TRUE, actor_panicked |-> IF event = "ActorFailed" THEN 1 ELSE 0]

handle_supervisor_evt(event) ==
    [stop |-> event = "ActorTerminated",
     actor_panicked |-> IF event = "ActorFailed" THEN 1 ELSE 0]

\* spawn_service and spawn_blocking_service: the token after the task
\* returned
service_returned_ignoring_errors(result, token) == token

service_returned(result, token) == IF result = "Err" THEN TRUE ELSE token

\* tracker.wait(): the tracker is closed and both tracked tasks have ended
TrackerEmpty ==
    /\ sv_status = "stopped"
    /\ http_server \in {"failed", "ended"}

SupervisionUnchanged ==
    UNCHANGED <<gu_vars, wrap_vars, sink_vars, port_vars, cb_vars, chat_vars,
                connection_vars, wiring_vars>>

\* start_server: manager.spawn_actor(Supervisor, ...)
SpawnActor ==
    /\ main_pc = "spawn_actor"
    /\ main_pc' = "spawn_service"
    /\ sv_status' = "running"
    /\ UNCHANGED <<sv_inbox, sv_events, sv_sent, sv_last, children,
                   actor_panicked, root_token, http_server, cleaner, signalled>>
    /\ SupervisionUnchanged

\* start_server: manager.spawn_service(HttpServer::run)
SpawnService ==
    /\ main_pc = "spawn_service"
    /\ main_pc' = "listen"
    /\ http_server' = "starting"
    /\ UNCHANGED <<sv_status, sv_inbox, sv_events, sv_sent, sv_last, children, actor_panicked, root_token, cleaner, signalled>>
    /\ SupervisionUnchanged

\* HttpServer::run up to the await of the token: building the router or
\* binding the listener may fail, and then the task returns the error
HttpServerRun(result) ==
    /\ http_server = "starting"
    /\ http_server' = IF result = "Err" THEN "failed" ELSE "serving"
    /\ root_token' = service_returned(result, root_token)
    /\ UNCHANGED <<main_pc, sv_status, sv_inbox, sv_events, sv_sent, sv_last,
                   children, actor_panicked, cleaner, signalled>>
    /\ SupervisionUnchanged

\* await_shutdown: the token is cancelled, the server is given 5 seconds and
\* the task returns Ok
HttpServerShutdown ==
    /\ http_server = "serving"
    /\ root_token
    /\ http_server' = "ended"
    /\ root_token' = service_returned("Ok", root_token)
    /\ UNCHANGED <<main_pc, sv_status, sv_inbox, sv_events, sv_sent, sv_last,
                   children, actor_panicked, cleaner, signalled>>
    /\ SupervisionUnchanged

\* the cleaning task receives the actor spawn_actor sent it
CleanerReceives ==
    /\ cleaner = "empty"
    /\ sv_status # "unspawned"
    /\ cleaner' = "holding"
    /\ UNCHANGED <<main_pc, sv_status, sv_inbox, sv_events, sv_sent, sv_last,
                   children, actor_panicked, root_token,
                   http_server, signalled>>
    /\ SupervisionUnchanged

\* the cleaning task finds the token cancelled: it stops the actors it holds
\* and ends
CleanerCancelled ==
    /\ cleaner \in {"empty", "holding"}
    /\ root_token
    /\ cleaner' = "done"
    /\ sv_status' = IF cleaner = "holding" /\ sv_status = "running"
                    THEN "stopping" ELSE sv_status
    /\ UNCHANGED <<main_pc, sv_inbox, sv_events, sv_sent, sv_last, children, actor_panicked, root_token, http_server, signalled>>
    /\ SupervisionUnchanged

\* SIGINT or SIGTERM arrives while listen_stop_signals waits
StopSignal ==
    /\ main_pc = "listen"
    /\ ~signalled
    /\ signalled' = TRUE
    /\ UNCHANGED <<main_pc, sv_status, sv_inbox, sv_events, sv_sent, sv_last,
                   children, actor_panicked, root_token,
                   http_server, cleaner>>
    /\ SupervisionUnchanged

\* listen_stop_signals: the select! completes (tracker.wait(), ctrl_c or
\* terminate) and stop() cancels the token
ListenStopSignals ==
    /\ main_pc = "listen"
    /\ TrackerEmpty \/ signalled
    /\ main_pc' = "stop"
    /\ root_token' = TRUE
    /\ UNCHANGED <<sv_status, sv_inbox, sv_events, sv_sent, sv_last, children, actor_panicked, http_server, cleaner, signalled>>
    /\ SupervisionUnchanged

\* stop(): tracker.wait() returns, and listen_stop_signals with it
ListenStopSignalsReturns ==
    /\ main_pc = "stop"
    /\ TrackerEmpty
    /\ main_pc' = "returned"
    /\ UNCHANGED <<sv_status, sv_inbox, sv_events, sv_sent, sv_last, children, actor_panicked, root_token, http_server, cleaner,
                   signalled>>
    /\ SupervisionUnchanged

\* the callback handler or the chat adapter sends the Supervisor a message
SendToSupervisor(message) ==
    /\ sv_status = "running"
    /\ sv_sent < MaxRequests
    /\ sv_sent' = sv_sent + 1
    /\ sv_inbox' = Append(sv_inbox, message)
    /\ UNCHANGED <<main_pc, sv_status, sv_events, sv_last, children,
                   actor_panicked, root_token, http_server, cleaner, signalled>>
    /\ SupervisionUnchanged

\* Supervisor::handle, Publish arm
SupervisorPublish ==
    /\ sv_status = "running"
    /\ sv_inbox # <<>>
    /\ Head(sv_inbox).type = "Publish"
    /\ LET report == Head(sv_inbox).value
           done == Supervisor_Publish(report, children["event_dispatcher"]) IN
       /\ sv_last' = [NotForwarded EXCEPT !.type = "Publish", !.value = report,
                                          !.result = done.result,
                                          !.cast = done.cast,
                                          !.dispatcher = children["event_dispatcher"]]
    /\ sv_inbox' = Tail(sv_inbox)
    /\ UNCHANGED <<main_pc, sv_status, sv_events, sv_sent, children, actor_panicked,
                   root_token, http_server, cleaner, signalled>>
    /\ SupervisionUnchanged

\* Supervisor::handle, GetNip05 arm: the call to the dispatcher, then the
\* reply if the caller has not timed out
SupervisorGetNip05(answer, timeout) ==
    /\ sv_status = "running"
    /\ sv_inbox # <<>>
    /\ Head(sv_inbox).type = "GetNip05"
    /\ LET dispatcher == children["event_dispatcher"]
           given == IF dispatcher = "running" THEN answer ELSE NoAnswer
           done == SupervisorCall(dispatcher, given.outcome, given.latency,
                                  given.metadata) IN
       /\ sv_last' = [type |-> "GetNip05", value |-> Head(sv_inbox).value,
                      result |-> done.result, dispatcher |-> dispatcher,
                      outcome |-> given.outcome, latency |-> given.latency,
                      metadata |-> given.metadata, timeout |-> timeout,
                      cast |-> <<>>,
                      reply |-> IF done.at < timeout
                                THEN [sent |-> TRUE, value |-> done.reply]
                                ELSE NoReply]
       /\ sv_status' = IF done.result = "Ok" THEN "running" ELSE "failed"
    /\ sv_inbox' = Tail(sv_inbox)
    /\ UNCHANGED <<main_pc, sv_events, sv_sent, children,
                   actor_panicked, root_token, http_server, cleaner, signalled>>
    /\ SupervisionUnchanged

\* a child actor stops: the Supervisor gets ActorTerminated
ChildTerminates(child) ==
    /\ sv_status = "running"
    /\ children[child] = "running"
    /\ Cardinality({ended \in Children : children[ended] # "running"}) < MaxChildEnds
    /\ children' = [children EXCEPT ![child] = "terminated"]
    /\ sv_events' = Append(sv_events, [event |-> "ActorTerminated", who |-> child])
    /\ UNCHANGED <<main_pc, sv_status, sv_inbox, sv_sent, sv_last, actor_panicked, root_token, http_server, cleaner, signalled>>
    /\ SupervisionUnchanged

\* the handler of a child panics or returns an error: the Supervisor gets
\* ActorFailed
ChildFails(child) ==
    /\ sv_status = "running"
    /\ children[child] = "running"
    /\ Cardinality({ended \in Children : children[ended] # "running"}) < MaxChildEnds
    /\ children' = [children EXCEPT ![child] = "failed"]
    /\ sv_events' = Append(sv_events, [event |-> "ActorFailed", who |-> child])
    /\ UNCHANGED <<main_pc, sv_status, sv_inbox, sv_sent, sv_last, actor_panicked, root_token, http_server, cleaner, signalled>>
    /\ SupervisionUnchanged

\* Supervisor::handle_supervisor_evt
HandleSupervisorEvt ==
    /\ sv_status = "running"
    /\ sv_events # <<>>
    /\ LET done == handle_supervisor_evt(Head(sv_events).event) IN
       /\ sv_status' = IF done.stop THEN "stopping" ELSE sv_status
       /\ actor_panicked' = actor_panicked + done.actor_panicked
    /\ sv_events' = Tail(sv_events)
    /\ UNCHANGED <<main_pc, sv_inbox, sv_sent, sv_last, children,
                   root_token, http_server, cleaner, signalled>>
    /\ SupervisionUnchanged

\* the Supervisor takes the stop signal (myself.stop or the cleaning task's)
\* and ends, and its linked children with it
SupervisorStops ==
    /\ sv_status = "stopping"
    /\ sv_status' = "stopped"
    /\ children' = [child \in Children |->
                        IF children[child] = "running" THEN "terminated"
                        ELSE children[child]]
    /\ UNCHANGED <<main_pc, sv_inbox, sv_events, sv_sent, sv_last, actor_panicked, root_token, http_server, cleaner, signalled>>
    /\ SupervisionUnchanged

-----------------------------------------------------------------------------
(* Specifications *)

Init ==
    /\ gu_keys \in ReceiverKeyPairs
    /\ gu_subscribers = {}
    /\ gu_status = "running"
    /\ gu_last = NotHandled
    /\ gu_discarded = 0
    /\ gu_handled = 0
    /\ event_received_error = 0
    /\ wrapped = NotWrapped
    /\ extracted = NotExtracted
    /\ seal = NotSealed
    /\ delivered = <<>>
    /\ ee_inbox = <<>>
    /\ sw_inbox = <<>>
    /\ publish_calls = <<>>
    /\ post_calls = <<>>
    /\ events_enqueued = 0
    /\ events_enqueued_error = 0
    /\ slack_write_message = 0
    /\ slack_write_message_error = 0
    /\ worker_forwarded = 0
    /\ rd_inbox = <<>>
    /\ port_log = <<>>
    /\ event_received = 0
    /\ sub_status = [subscriber \in PortSubscribers |-> "none"]
    /\ sub_start = [subscriber \in PortSubscribers |-> 1]
    /\ sub_cursor = [subscriber \in PortSubscribers |-> 1]
    /\ sub_lagged = [subscriber \in PortSubscribers |-> FALSE]
    /\ sub_inbox = [subscriber \in PortSubscribers |-> <<>>]
    /\ cb_pc = "idle"
    /\ cb_count = 0
    /\ cb_payload = NoPayload
    /\ cb_parsed = Err(NoParse)
    /\ cb_reporter_nip05_markdown = NoMarkdown
    /\ cb_reported_nip05_markdown = NoMarkdown
    /\ cb_published = <<>>
    /\ cb_response = None
    /\ cb_status = NoStatus
    /\ cb_body = NoBody
    /\ cb_get_nip05 = 0
    /\ cb_pressed = NoPress
    /\ supervisor_publish = 0
    /\ wm_pc = "idle"
    /\ wm_count = 0
    /\ wm_request = NoRequest
    /\ wm_reported_link = NoLink
    /\ wm_reporter_link = NoLink
    /\ chat_posted = NoMessage
    /\ dsp_status = "running"
    /\ dsp_pc = "idle"
    /\ dsp_current = "nothing"
    /\ dsp_inbox = <<>>
    /\ dsp_casts = 0
    /\ dsp_counter = [counter \in DispatcherCounters |-> 0]
    /\ dsp_attempt = "none"
    /\ nostr_publish = <<>>
    /\ subscription_task_manager = None
    /\ workers = [w \in Workers |-> NoTask]
    /\ relay_connected = FALSE
    /\ reply_port = "none"
    /\ reply_last = "nothing"
    /\ pre_start_pc = 0
    /\ worker_spawned = FALSE
    /\ unwrapped_with = {}
    /\ main_pc = "spawn_actor"
    /\ sv_status = "unspawned"
    /\ sv_inbox = <<>>
    /\ sv_events = <<>>
    /\ sv_sent = 0
    /\ sv_last = NotForwarded
    /\ children = [child \in Children |-> "running"]
    /\ actor_panicked = 0
    /\ root_token = FALSE
    /\ http_server = "unspawned"
    /\ cleaner = "empty"
    /\ signalled = FALSE

\* GiftUnwrapper fed by a relay that may deliver any event
Next ==
    \/ \E event \in GiftWraps : UnwrapEvent(event)
    \/ \E subscriber \in GiftUnwrapperSubscribers : SubscribeToEventUnwrapped(subscriber)

Spec == Init /\ [][Next]_vars

\* GiftUnwrapper fed by the wrapping utility
NextGiftWrap ==
    \/ \E r \in ReportRequests, k \in ReporterKeyPairs, s \in ReceiverKeyPairs :
           AsGiftWrap(r, k, s)
    \/ \E r \in ReportRequests, k \in ReporterKeyPairs, s \in ReceiverKeyPairs :
           CreatePrivateDmMessage(r, k, s)
    \/ \E keys \in ReceiverKeyPairs : ExtractReportRequest(keys)
    \/ UnwrapWrapped

SpecGiftWrap == Init /\ [][NextGiftWrap]_vars

\* the timestamp of the seal, for every clock reading and every draw
NextSeal ==
    \E now \in Clocks, draw \in Draws : RandomTimeInLastTwoDays(now, draw)

SpecSeal == Init /\ [][NextSeal]_vars

\* the two sinks fed by GiftUnwrapper's output port
NextSinks ==
    \/ \E report_request \in SinkRequests : SendMessageParsed(report_request)
    \/ \E published \in BOOLEAN : Enqueue(published)
    \/ \E posted \in BOOLEAN : Write(posted)

SpecSinks == Init /\ [][NextSinks]_vars

\* RelayEventDispatcher fed by the subscription worker, with its subscribers
NextPort ==
    \/ ForwardEvent
    \/ \E subscriber \in PortSubscribers : CastSubscribe(subscriber)
    \/ SubscribeToEventReceived
    \/ EventReceived
    \/ \E subscriber \in PortSubscribers : PortDeliver(subscriber)
    \/ \E subscriber \in PortSubscribers, outcome \in LagOutcomes :
           PortLagged(subscriber, outcome)

SpecPort == Init /\ [][NextPort]_vars

\* the chat callback endpoint with the Supervisor answering its lookups
NextCallback ==
    \/ EmptyRequest
    \/ \E payload \in Payloads : SlackInteraction(payload)
    \/ \E latency \in Latencies, metadata \in Metadata :
           TryNjumpReporter(latency, metadata)
    \/ \E latency \in Latencies, metadata \in Metadata, posted \in BOOLEAN :
           TryNjumpReported(latency, metadata, posted)
    \/ Respond

SpecCallback == Init /\ [][NextCallback]_vars

\* the chat channel: SlackClientAdapter posts messages and a moderator presses
\* their buttons
NextChat ==
    \/ \E report_request \in PubkeyReportRequests, latency \in Latencies,
          metadata \in Metadata :
           WriteMessage(report_request, latency, metadata)
    \/ \E latency \in Latencies, metadata \in Metadata :
           WriteMessageReporter(latency, metadata)
    \/ \E posted \in BOOLEAN : PostMessage(posted)
    \/ \E i \in 1..(Len(CategoryButtons) + 1) : PressButton(i)
    \/ Respond

SpecChat == Init /\ [][NextChat]_vars

\* write_message alone, as SlackWriter calls it
NextWriteMessage ==
    \/ \E report_request \in PubkeyReportRequests, latency \in Latencies,
          metadata \in Metadata :
           WriteMessage(report_request, latency, metadata)
    \/ \E latency \in Latencies, metadata \in Metadata :
           WriteMessageReporter(latency, metadata)
    \/ \E posted \in BOOLEAN : PostMessage(posted)

\* a write_message that runs on: each lookup ends with an answer or with the
\* timeout of its call, and then the post is made
FairChat ==
    /\ Init /\ [][NextWriteMessage]_vars
    /\ WF_vars(\E latency \in Latencies, metadata \in Metadata :
                   WriteMessageReporter(latency, metadata))
    /\ WF_vars(\E posted \in BOOLEAN : PostMessage(posted))

\* RelayEventDispatcher with its subscription worker, the relays and the
\* actors that cast to it
NextConnection ==
    \/ \E type \in DispatcherCasts : CastToDispatcher(type)
    \/ \E connected \in BOOLEAN : Connect(connected)
    \/ \E reconnected \in BOOLEAN : Reconnect(reconnected)
    \/ StopReturns
    \/ \E published \in BOOLEAN : Publish(published)
    \/ DispatcherEventReceived
    \/ GetNip05
    \/ GetNip05IsClosed
    \/ GetNip05Send
    \/ CallerTimeout
    \/ RelayChanges
    \/ \E w \in Workers : WorkerSubscribes(w)
    \/ \E w \in Workers : WorkerNotified(w)
    \/ \E w \in Workers : WorkerLoopEnds(w)
    \/ \E w \in Workers : WorkerSendsReconnect(w)
    \/ DispatcherStateDropped

SpecConnection == Init /\ [][NextConnection]_vars

\* the same with a dispatcher that can be told to stop
NextStop ==
    \/ NextConnection
    \/ PostStop
    \/ PostStopReturns

SpecStop == Init /\ [][NextStop]_vars

\* the Supervisor's pre_start with the dispatcher, its worker and GiftUnwrapper
NextWiring ==
    \/ PreStart
    \/ SubscribeToEventReceived
    \/ \E connect_ok \in BOOLEAN : DispatcherConnects(connect_ok)
    \/ WorkerForwardsEvent
    \/ EventReceived
    \/ PortDeliver("gift_unwrapper")
    \/ \E outcome \in LagOutcomes : PortLagged("gift_unwrapper", outcome)
    \/ GiftUnwrapperReceives

SpecWiring == Init /\ [][NextWiring]_vars

\* the same with the scheduling the runtime gives: the actor's message loop
\* handles the message at the head of its inbox and resumes a handler whose
\* await has completed; a spawned subscribe call runs; the send_after timer
\* fires; a worker whose token is cancelled has its client stopped and its
\* loop ended.  Casts, relay changes, the caller's timeout and a loop that
\* ends by itself may never happen.
WorkerStopped(w) == workers[w].cancelled /\ WorkerLoopEnds(w)

FairConnection ==
    /\ SpecConnection
    /\ WF_vars(\E connected \in BOOLEAN : Connect(connected))
    /\ WF_vars(\E reconnected \in BOOLEAN : Reconnect(reconnected))
    /\ WF_vars(StopReturns)
    /\ WF_vars(\E published \in BOOLEAN : Publish(published))
    /\ WF_vars(DispatcherEventReceived)
    /\ WF_vars(GetNip05)
    /\ WF_vars(GetNip05IsClosed)
    /\ WF_vars(GetNip05Send)
    /\ \A w \in Workers :
           /\ WF_vars(WorkerSubscribes(w))
           /\ WF_vars(WorkerStopped(w))
           /\ WF_vars(WorkerSendsReconnect(w))
    /\ WF_vars(DispatcherStateDropped)

\* the fair connection with a dispatcher that can be told to stop: post_stop
\* runs on once it has started
FairStop ==
    /\ SpecStop
    /\ WF_vars(\E connected \in BOOLEAN : Connect(connected))
    /\ WF_vars(\E reconnected \in BOOLEAN : Reconnect(reconnected))
    /\ WF_vars(StopReturns)
    /\ WF_vars(PostStopReturns)
    /\ WF_vars(DispatcherStateDropped)
    /\ \A w \in Workers :
           /\ WF_vars(WorkerSubscribes(w))
           /\ WF_vars(WorkerStopped(w))
           /\ WF_vars(WorkerSendsReconnect(w))

\* the Supervisor with its callers and its children
NextSupervisor ==
    \/ SpawnActor
    \/ \E message \in SupervisorMessages : SendToSupervisor(message)
    \/ SupervisorPublish
    \/ \E answer \in DispatcherAnswers, timeout \in CallerTimeouts :
           SupervisorGetNip05(answer, timeout)
    \/ \E child \in Children : ChildTerminates(child)
    \/ \E child \in Children : ChildFails(child)
    \/ HandleSupervisorEvt
    \/ SupervisorStops

SpecSupervisor == Init /\ [][NextSupervisor]_vars

\* start_server: the ServiceManager that tracks the Supervisor and the HTTP
\* server task, the Supervisor with its children
NextManager ==
    \/ SpawnActor
    \/ SpawnService
    \/ \E result \in {"Ok", "Err"} : HttpServerRun(result)
    \/ HttpServerShutdown
    \/ CleanerReceives
    \/ CleanerCancelled
    \/ StopSignal
    \/ ListenStopSignals
    \/ ListenStopSignalsReturns
    \/ \E child \in Children : ChildTerminates(child)
    \/ \E child \in Children : ChildFails(child)
    \/ HandleSupervisorEvt
    \/ SupervisorStops

SpecManager == Init /\ [][NextManager]_vars

\* the same with the scheduling the runtime gives: start_server runs on, the
\* spawned tasks run, an actor handles what is in its inbox and takes a stop
\* signal.  Signals and the ends of children may never happen.
FairManager ==
    /\ SpecManager
    /\ WF_vars(SpawnActor)
    /\ WF_vars(SpawnService)
    /\ WF_vars(\E result \in {"Ok", "Err"} : HttpServerRun(result))
    /\ WF_vars(HttpServerShutdown)
    /\ WF_vars(CleanerReceives)
    /\ WF_vars(CleanerCancelled)
    /\ WF_vars(ListenStopSignals)
    /\ WF_vars(ListenStopSignalsReturns)
    /\ WF_vars(HandleSupervisorEvt)
    /\ WF_vars(SupervisorStops)

-----------------------------------------------------------------------------
(* Properties of the sinks *)

IsEventRequest(report_request) == report_request.target.type = "Event"
IsPubkeyRequest(report_request) == report_request.target.type = "Pubkey"

\* the requests a sink has handled so far
HandledBy(inbox) == SubSeq(delivered, 1, Len(delivered) - Len(inbox))

\* C1: of the requests delivered to both sinks, EventEnqueuer calls
\* publish_event once for each one with an Event target and for no other,
\* SlackWriter calls write_message once for each one with a Pubkey target and
\* for no other, so once both have handled everything each request caused
\* exactly one outbound call.
C1_TargetingRouting ==
    /\ publish_calls = SelectSeq(HandledBy(ee_inbox), IsEventRequest)
    /\ post_calls = SelectSeq(HandledBy(sw_inbox), IsPubkeyRequest)
    /\ (ee_inbox = <<>> /\ sw_inbox = <<>>)
           => Len(publish_calls) + Len(post_calls) = Len(delivered)
    /\ events_enqueued + events_enqueued_error = Len(publish_calls)
    /\ slack_write_message + slack_write_message_error = Len(post_calls)

C1_Witness ==
    /\ ee_inbox = <<>>
    /\ sw_inbox = <<>>
    /\ Len(delivered) = 2
    /\ Len(publish_calls) = 1
    /\ Len(post_calls) = 1
    /\ events_enqueued_error = 1

-----------------------------------------------------------------------------
(* Properties of RelayEventDispatcher and of the output port *)

Subscribed(subscriber) == sub_status[subscriber] \in {"active", "closed"}

\* the forwarder of the subscription has nothing more to deliver
Idle(subscriber) ==
    \/ sub_status[subscriber] = "closed"
    \/ sub_status[subscriber] = "active" /\ sub_cursor[subscriber] > Len(port_log)

\* the values the subscriber's inbox holds, in the order they arrived
ValuesReceived(subscriber) ==
    [i \in 1..Len(sub_inbox[subscriber]) |-> sub_inbox[subscriber][i].value]

\* the values sent on the port since the subscription started
ValuesPublishedSince(subscriber) ==
    SubSeq(port_log, sub_start[subscriber], Len(port_log))

\* the values sent on the port since the subscription started that its
\* forwarder has gone past
ValuesPassed(subscriber) ==
    SubSeq(port_log, sub_start[subscriber], sub_cursor[subscriber] - 1)

StrictlyIncreasing(seq) ==
    \A i \in 1..Len(seq), j \in 1..Len(seq) : i < j => seq[i] < seq[j]

\* the dispatcher handles its inbox first in, first out, and broadcasts in
\* that order: the port has seen e1, e2, ... up to the last event handled
BroadcastInReceiptOrder ==
    /\ port_log = [i \in 1..Len(port_log) |-> i]
    /\ event_received = Len(port_log)
    /\ Len(port_log) <= worker_forwarded

\* C8 as stated: events forwarded e1 then e2 reach every subscriber of the
\* dispatcher's port in that order, none lost and none duplicated.
C8_ReceiptOrder_NothingLost ==
    /\ BroadcastInReceiptOrder
    /\ \A subscriber \in PortSubscribers :
           /\ Subscribed(subscriber) =>
                  ValuesReceived(subscriber) = ValuesPassed(subscriber)
           /\ Idle(subscriber) =>
                  ValuesReceived(subscriber) = ValuesPublishedSince(subscriber)

\* C8 amended: events forwarded e1 then e2 are broadcast in that order and
\* reach every subscriber in that order, none duplicated; none is lost by a
\* subscriber that never falls more than BroadcastBufferSize broadcasts
\* behind, while one that does loses events.
C8_ReceiptOrder ==
    /\ BroadcastInReceiptOrder
    /\ \A subscriber \in PortSubscribers :
           /\ StrictlyIncreasing(ValuesReceived(subscriber))
           /\ \A i \in 1..Len(sub_inbox[subscriber]) :
                  /\ sub_inbox[subscriber][i].value >= sub_start[subscriber]
                  /\ sub_inbox[subscriber][i].value < sub_cursor[subscriber]
           /\ (Subscribed(subscriber) /\ ~sub_lagged[subscriber]) =>
                  /\ ValuesReceived(subscriber) = ValuesPassed(subscriber)
                  /\ sub_status[subscriber] = "active"
           /\ sub_lagged[subscriber] =>
                  Len(sub_inbox[subscriber]) < Len(ValuesPublishedSince(subscriber))

\* a subscriber that kept up received everything while another one fell behind
C8_Witness ==
    /\ Len(port_log) = MaxEvents
    /\ Idle("gift_unwrapper")
    /\ ~sub_lagged["gift_unwrapper"]
    /\ sub_start["gift_unwrapper"] = 1
    /\ Len(sub_inbox["gift_unwrapper"]) = MaxEvents
    /\ sub_lagged["test_actor"]

\* how many messages of the subscriber's inbox carry the value
TimesReceived(subscriber, value) ==
    Cardinality({i \in 1..Len(sub_inbox[subscriber]) :
                    sub_inbox[subscriber][i].value = value})

\* the message type each subscriber's own From conversion makes
OwnMessageType(subscriber) ==
    IF subscriber = "gift_unwrapper" THEN "UnwrapEvent" ELSE "EventHappened"

\* C9 as stated: every subscriber receives each value published after it
\* subscribed exactly once, converted into its own message type, in
\* publication order, whatever the other subscribers do.
C9_FanOut_ExactlyOnce ==
    \A subscriber \in PortSubscribers :
        /\ \A i \in 1..Len(sub_inbox[subscriber]) :
               sub_inbox[subscriber][i].type = OwnMessageType(subscriber)
        /\ StrictlyIncreasing(ValuesReceived(subscriber))
        /\ Idle(subscriber) =>
               \A p \in sub_start[subscriber]..Len(port_log) :
                   TimesReceived(subscriber, port_log[p]) = 1

\* C9 amended: every subscriber receives each value published after it
\* subscribed at most once, converted into its own message type, in
\* publication order, whatever the other subscribers do; it receives each
\* exactly once as long as it never falls more than BroadcastBufferSize
\* values behind the port.
C9_FanOut ==
    \A subscriber \in PortSubscribers :
        /\ \A i \in 1..Len(sub_inbox[subscriber]) :
               sub_inbox[subscriber][i].type = OwnMessageType(subscriber)
        /\ StrictlyIncreasing(ValuesReceived(subscriber))
        /\ \A p \in 1..Len(port_log) :
               /\ TimesReceived(subscriber, port_log[p]) <= 1
               /\ p < sub_start[subscriber] => TimesReceived(subscriber, port_log[p]) = 0
        /\ (Idle(subscriber) /\ ~sub_lagged[subscriber]) =>
               \A p \in sub_start[subscriber]..Len(port_log) :
                   TimesReceived(subscriber, port_log[p]) = 1

\* two subscribers that subscribed at different times, both up to date, the
\* later one holding only the values published since it subscribed
C9_Witness ==
    /\ Idle("gift_unwrapper")
    /\ Idle("test_actor")
    /\ ~sub_lagged["gift_unwrapper"]
    /\ ~sub_lagged["test_actor"]
    /\ sub_start["gift_unwrapper"] = 1
    /\ sub_start["test_actor"] = 3
    /\ Len(sub_inbox["gift_unwrapper"]) = 4
    /\ Len(sub_inbox["test_actor"]) = 2

-----------------------------------------------------------------------------
(* Properties of the chat callback handler *)

\* C10: once the handler has answered a well-formed callback whose action_id
\* is a moderation category, it has sent the Supervisor exactly one Publish,
\* carrying the report built from the request and the category, whatever the
\* outcome of the two name lookups.
C10_CategoryPublishesOnce ==
    (cb_pc = "responded" /\ cb_parsed.ok /\ cb_parsed.value.category # None) =>
        cb_published = <<ModeratedReport_create(
                             cb_parsed.value.request,
                             nip56_report_type(cb_parsed.value.category[1]))>>

\* C12: the label of every moderation category parses back to that category,
\* and so does the action_id of a callback that carries it; "skip" and every
\* other string parse to no category, and the decoder fails on such a
\* callback only where it fails with a category in its place.
C12_CategoryRoundTrip ==
    /\ \A category \in ModerationCategories :
           ModerationCategory_from_str(ModerationCategory_to_string(category)) = Ok(category)
    /\ ~ModerationCategory_from_str("skip").ok
    /\ (cb_pc # "idle" /\ cb_payload.action_id # Absent) =>
           LET action_id == cb_payload.action_id
               labelled == {category \in ModerationCategories :
                               ModerationCategory_to_string(category) = action_id} IN
           /\ cb_parsed.ok =>
                  /\ \A category \in labelled : cb_parsed.value.category = Some(category)
                  /\ labelled = {} => cb_parsed.value.category = None
           /\ labelled = {} =>
                  /\ ~ModerationCategory_from_str(action_id).ok
                  /\ cb_parsed.ok =
                         parse_slack_action([cb_payload EXCEPT !.action_id = "hate"]).ok

\* a callback with the label of SexualMinors was decoded to that category
C12_Witness ==
    /\ cb_pc = "reporter_lookup"
    /\ cb_payload.action_id = ModerationCategory_to_string("SexualMinors")
    /\ cb_parsed.ok
    /\ cb_parsed.value.category = Some("SexualMinors")

\* C13: a callback with neither a reportedEvent nor a reportedPubkey block is
\* not decoded; with one of the two blocks the decoded target is that one;
\* with both blocks the decoded target is the Pubkey one.
C13_PubkeyWins ==
    (/\ cb_pc # "idle"
     /\ cb_payload.response_url # Absent
     /\ cb_payload.username # Absent
     /\ cb_payload.action_id # Absent) =>
        LET reported_event == cb_payload.reportedEvent
            reported_pubkey == cb_payload.reportedPubkey IN
        /\ (reported_event = None /\ reported_pubkey = None) => ~cb_parsed.ok
        /\ cb_parsed.ok =>
               LET target == cb_parsed.value.request.target IN
               /\ (reported_event # None /\ reported_pubkey = None) =>
                      target = reported_event[1]
               /\ (reported_event = None /\ reported_pubkey # None) =>
                      target = PubkeyTarget(PublicKey_from_hex(reported_pubkey[1]).value)
               /\ (reported_event # None /\ reported_pubkey # None) =>
                      target.type = "Pubkey"

\* C14: once the handler has answered a callback that parse_slack_action
\* rejects (a missing response_url, username, action_id or target block, a
\* reporter or reported key that does not parse), the status is 400, no
\* Publish was sent and nothing was posted to the response_url.
C14_ParseErrorsAreBadRequests ==
    (cb_pc = "responded" /\ ~parse_slack_action(cb_payload).ok) =>
        /\ cb_status = BadRequest
        /\ cb_published = <<>>
        /\ cb_response = None

\* C15: a request with an empty body is answered with status 400 and an
\* empty body, and neither a lookup nor a Publish reaches the Supervisor and
\* nothing is posted to a response_url because of it.
C15_EmptyBodyIsBadRequest ==
    cb_pc = "rejected" =>
        /\ cb_status = BadRequest
        /\ cb_body = EmptyBody
        /\ cb_published = <<>>
        /\ cb_get_nip05 = 0
        /\ cb_response = None
        /\ cb_parsed = Err(NoParse)

\* the second request has an empty body; the first was a callback that was
\* published
C15_Witness ==
    /\ cb_pc = "rejected"
    /\ cb_count = 2
    /\ supervisor_publish = 1

C11_SkipPublishesNothing ==
    (cb_pc = "responded" /\ cb_parsed.ok /\ cb_parsed.value.category = None) =>
        /\ cb_published = <<>>
        /\ ReportRequest_report(cb_parsed.value.request, None) = None
        /\ cb_reported_nip05_markdown # NoMarkdown
        /\ cb_response # None =>
               cb_response = Some(slack_skipped_message(
                                 cb_parsed.value.username, cb_reporter_nip05_markdown,
                                 cb_parsed.value.request, cb_reported_nip05_markdown))

-----------------------------------------------------------------------------
(* Properties of the moderated reports the callback handler builds *)

\* the category chosen in the callback being handled and its request
ChosenCategory == cb_parsed.value.category[1]
ChosenRequest == cb_parsed.value.request
BuiltReports == {cb_published[i] : i \in 1..Len(cb_published)}
TagsOf(report) == {report.tags[j] : j \in 1..Len(report.tags)}

\* C17: every report built for a request and a category has a p tag with the
\* reported pubkey (the author of the reported event for an Event target)
\* and the category's report type as third field, and has an e tag, with the
\* reported event's id and the same report type, exactly when the target is
\* an Event.
C17_SubjectTags ==
    \A report \in BuiltReports :
        LET report_type == nip56_report_type(ChosenCategory)
            e_tags == {tag \in TagsOf(report) : tag[1] = "e"} IN
        /\ <<"p", ReportTarget_pubkey(ChosenRequest.target), report_type>>
               \in TagsOf(report)
        /\ (e_tags # {}) <=> (ChosenRequest.target.type = "Event")
        /\ \A tag \in e_tags : tag = <<"e", ChosenRequest.target.id, report_type>>

\* a report was built for an Event target and the SexualMinors category
C17_Witness ==
    /\ cb_pc = "responded"
    /\ Len(cb_published) = 1
    /\ ChosenRequest.target.type = "Event"
    /\ ChosenCategory = "SexualMinors"
    /\ cb_published[1].tags = <<<<"p", "mallory_pk", "illegal">>, <<"e", "e1", "illegal">>>>

\* the label of a NIP-69 code in the MOD namespace
ModLabel(code) ==
    CASE code = "IH" -> "MOD>IH"
      [] code = "HC-bhd" -> "MOD>HC-bhd"
      [] code = "IL-har" -> "MOD>IL-har"
      [] code = "NS" -> "MOD>NS"
      [] code = "IL-csa" -> "MOD>IL-csa"
      [] code = "VI" -> "MOD>VI"

\* C18: every report built for a category has the label-namespace tag
\* ["L", "MOD"] and the label tag ["l", "MOD>" + nip69 of the category, "MOD"].
C18_LabelTags ==
    \A report \in BuiltReports :
        /\ \E tag \in TagsOf(report) : tag[1] = "L" /\ tag = <<"L", "MOD">>
        /\ \E tag \in TagsOf(report) :
               tag[1] = "l" /\ tag = <<"l", ModLabel(nip69(ChosenCategory)), "MOD">>

\* C19: every report built has kind 1984, is authored by the service key,
\* which is neither the reporter's nor the reported key, and has the
\* description of the chosen moderation category as its content.
C19_KindAuthorContent ==
    \A report \in BuiltReports :
        /\ report.kind = 1984
        /\ report.pubkey = public_key(ServiceKeys)
        /\ report.pubkey \notin {ChosenRequest.reporter_pubkey,
                                ReportTarget_pubkey(ChosenRequest.target)}
        /\ report.content = ModerationCategory_description(ChosenCategory)

-----------------------------------------------------------------------------
(* Properties of the chat template and the callback decoder together *)

\* C20: the message rendered for a pubkey-target request has the hex of the
\* target key in its reportedPubkey block and the hex of the reporter's key
\* as the value of each of its 12 buttons (skip and the 11 categories), and
\* the callback of a press of any of these buttons is decoded to a request
\* with the target and the reporter_pubkey of that request.
C20_TemplateRoundTrip ==
    /\ chat_posted # NoMessage =>
           LET request == chat_posted.request
               blocks == chat_posted.content.blocks
               buttons == blocks[5].elements IN
           /\ \E i \in 1..Len(blocks) :
                  /\ blocks[i].block_id = "reportedPubkey"
                  /\ blocks[i].elements[1].text =
                         PublicKey_to_hex(ReportTarget_pubkey(request.target))
           /\ blocks[5].type = "actions"
           /\ {buttons[j].action_id : j \in 1..Len(buttons)} =
                  {"skip"} \cup ModerationCategoryLabels
           /\ Len(buttons) = 12
           /\ \A j \in 1..Len(buttons) :
                  buttons[j].value = PublicKey_to_hex(request.reporter_pubkey)
    /\ cb_pressed # NoPress =>
           /\ cb_parsed.ok
           /\ cb_parsed.value.request.target = cb_pressed.request.target
           /\ cb_parsed.value.request.reporter_pubkey = cb_pressed.request.reporter_pubkey

-----------------------------------------------------------------------------
(* Properties of GiftUnwrapper and of the gift-wrap protocol *)

Handled == gu_last.result # "none"

\* the event is a gift wrap of kind 1059 whose two layers GiftUnwrapper's keys decrypt
Decryptable(event) ==
    /\ event.kind = KindGiftWrap
    /\ event.outer_to = public_key(gu_keys)
    /\ event.seal_to = public_key(gu_keys)

\* the body is the JSON of a report request
IsRequestJson(json) ==
    json.wellformed /\ json.target # NoTarget /\ json.reporterPubkey # Absent

Verifies(target) == target.type = "Pubkey" \/ target.verifies

\* C2: every ReportRequest GiftUnwrapper emits has as reporter_pubkey the
\* signer of the seal, whatever reporterPubkey the rumor's JSON body carries.
C2_ReporterIsSealSigner ==
    \A i \in 1..Len(gu_last.sent) :
        gu_last.sent[i].reporter_pubkey = gu_last.msg.seal_signer

C6_NeverWedged ==
    /\ [](gu_status = "running" /\ gu_last.result \in {"none", "Ok"})
    /\ []((Handled /\ Decryptable(gu_last.msg) /\ IsRequestJson(gu_last.msg.content)
              /\ Verifies(gu_last.msg.content.target))
            => /\ Len(gu_last.sent) = 1
               /\ gu_last.sent[1].target = gu_last.msg.content.target)
    /\ [][gu_handled' # gu_handled => gu_subscribers' = gu_subscribers]_vars

\* a valid gift wrap emitted after two discarded messages, with a subscriber
\* still in place
C6_Witness ==
    /\ gu_discarded >= 2
    /\ Len(gu_last.sent) = 1
    /\ gu_status = "running"
    /\ gu_subscribers # {}

\* C7: every message GiftUnwrapper discards adds exactly 1 to
\* event_received_error, and an emitted one adds nothing.
C7_DiscardsAreCounted == event_received_error = gu_discarded

-----------------------------------------------------------------------------
(* Properties of RelayEventDispatcher's connection and subscription worker *)

\* C21: in every reachable state at most one subscription worker is live
\* (spawned and its subscribe call not yet returned), and every step that
\* spawns a worker is taken when every worker spawned before has its token
\* cancelled and has ended: Connect and Reconnect cancel the existing worker
\* and wait for it before they spawn the new one.
C21_AtMostOneWorker ==
    /\ [](Cardinality(LiveWorkers) <= 1)
    /\ [][Spawned' # Spawned =>
              \A w \in Spawned :
                  workers[w].cancelled /\ workers[w].status = "ended"]_vars

\* a second worker runs after the first, which was listening, was cancelled
C21_Witness ==
    /\ Cardinality(Spawned) >= 2
    /\ workers[1].ended_by = "cancellation"
    /\ Cardinality(LiveWorkers) = 1

\* the reasons a worker ends for while its token is not cancelled
UnexpectedExits == {"loop ended", "all disconnected"}

\* C22: a worker whose loop ended while its token was not cancelled (also
\* one that found all relays disconnected when subscribing) has its token
\* cancelled and, once it has ended, has sent exactly one Reconnect; a worker
\* that ended because its token was cancelled has sent none; and after such
\* an unexpected exit the dispatcher, handling that Reconnect, eventually
\* starts a new worker.
C22_ReconnectAfterExit ==
    /\ [](\A w \in Workers :
              /\ workers[w].ended_by \in UnexpectedExits =>
                     /\ workers[w].cancelled
                     /\ workers[w].reconnects =
                            IF workers[w].status = "ended" THEN 1 ELSE 0
              /\ workers[w].ended_by = "cancellation" => workers[w].reconnects = 0)
    /\ \A w \in 1..(MaxWorkers - 1) :
           [](workers[w].ended_by \in UnexpectedExits /\ dsp_status = "running"
                  => <>(w + 1 \in Spawned \/ dsp_status = "failed"))

\* the parts of C22 that hold: one Reconnect after an unexpected exit, none
\* after a cancellation, and the Reconnect eventually reaches the inbox
C22_ExactlyOneReconnect ==
    /\ [](\A w \in Workers :
              /\ workers[w].ended_by \in UnexpectedExits =>
                     /\ workers[w].cancelled
                     /\ workers[w].reconnects =
                            IF workers[w].status = "ended" THEN 1 ELSE 0
              /\ workers[w].ended_by = "cancellation" => workers[w].reconnects = 0)
    /\ \A w \in Workers :
           [](workers[w].status = "reconnecting" => <>(workers[w].reconnects = 1))

\* a Reconnect is in the dispatcher's inbox
ReconnectDelivered ==
    \E i \in 1..Len(dsp_inbox) : dsp_inbox[i].type = "Reconnect"

\* C23: the dispatcher retries for ever: whenever the last connection
\* attempt failed (connect or reconnect returned an error) or a worker found
\* all relays disconnected, a Reconnect is eventually in the dispatcher's
\* inbox; and whenever a connection was attempted and the relays are
\* connected, a subscription worker is eventually listening (unless the
\* relays disconnect again).
C23_IndefiniteRetry ==
    /\ [](dsp_attempt = "failed" /\ dsp_status = "running"
              => <>(ReconnectDelivered \/ dsp_status = "failed"))
    /\ \A w \in Workers :
           []((/\ workers[w].status = "reconnecting"
               /\ workers[w].ended_by = "all disconnected"
               /\ dsp_status = "running")
                  => <>(ReconnectDelivered \/ dsp_status = "failed"))
    /\ [](dsp_attempt # "none" /\ relay_connected /\ dsp_status = "running"
              => <>(\/ \E w \in Workers : workers[w].status = "listening"
                    \/ ~relay_connected
                    \/ dsp_status = "failed"
                    \/ Cardinality(Spawned) = MaxWorkers))

\* how many of the calls of NostrPort::publish had the given result
PublishResults(published) ==
    Cardinality({i \in 1..Len(nostr_publish) : nostr_publish[i] = published})

\* C24: every step in which the dispatcher takes a Publish from its inbox
\* calls NostrPort::publish exactly once, increments exactly one of publish
\* and publish_error by 1 and leaves the dispatcher running and idle, ready
\* for its next message; in every state publish counts the successful calls
\* and publish_error the failed ones.
C24_PublishAccounting ==
    /\ [](/\ dsp_counter["publish"] = PublishResults(TRUE)
          /\ dsp_counter["publish_error"] = PublishResults(FALSE))
    /\ [][DispatcherReceives("Publish") /\ dsp_inbox' = Tail(dsp_inbox) =>
              /\ Len(nostr_publish') = Len(nostr_publish) + 1
              /\ dsp_counter["publish"]' + dsp_counter["publish_error"]'
                     = dsp_counter["publish"] + dsp_counter["publish_error"] + 1
              /\ dsp_counter["publish"]' >= dsp_counter["publish"]
              /\ dsp_counter["publish_error"]' >= dsp_counter["publish_error"]
              /\ dsp_status' = "running"
              /\ dsp_pc' = "idle"]_vars

\* after a publish error a Publish succeeded and a GetNip05 was answered
C24_Witness ==
    /\ nostr_publish = <<FALSE, TRUE>>
    /\ dsp_status = "running"
    /\ reply_last = "answered"
    /\ dsp_inbox = <<>>

\* C25: whatever the caller's timeout does to the reply port, before, during
\* or after the lookup, the GetNip05 arm returns Ok and the dispatcher keeps
\* running: no send on the reply port has failed the handler.
C25_GetNip05NeverFails ==
    /\ dsp_status = "running"
    /\ reply_last # "send failed"

\* the part of C25 that holds: a reply port found closed after the lookup
\* gets no answer and the handler returns Ok
C25_ClosedPortGetsNoAnswer ==
    [][dsp_pc = "lookup" /\ reply_port = "closed" =>
           \/ (dsp_pc' = "idle" /\ reply_last' = "not sent" /\ dsp_status' = "running")
           \/ UNCHANGED <<dsp_pc, reply_port, reply_last, dsp_status>>]_vars

-----------------------------------------------------------------------------
(* Properties of the Supervisor *)

\* C27: pre_start casts Connect only after the three subscriptions; every
\* step in which the dispatcher broadcasts a received event is taken with
\* GiftUnwrapper subscribed to the port from its first value on; and every
\* event GiftUnwrapper handled was handled with both sinks subscribed to its
\* port.
C27_WiringPrecedesConnect ==
    /\ [](worker_spawned \/ (\E i \in 1..Len(rd_inbox) : rd_inbox[i].type = "Connect")
              => pre_start_pc = Len(pre_start_casts))
    /\ [][event_received' > event_received =>
              /\ sub_status["gift_unwrapper"] \in {"active", "closed"}
              /\ sub_start["gift_unwrapper"] = 1]_vars
    /\ [](\A subscribers \in unwrapped_with : subscribers = GiftUnwrapperSubscribers)

\* the dispatcher has broadcast two events and GiftUnwrapper has handled both
C27_Witness ==
    /\ event_received = 2
    /\ sub_cursor["gift_unwrapper"] = 3
    /\ sub_inbox["gift_unwrapper"] = <<>>
    /\ unwrapped_with = {GiftUnwrapperSubscribers}


\* the step by which the Supervisor takes the message at the head of its inbox
SupervisorHandles(type) ==
    /\ sv_inbox # <<>>
    /\ Head(sv_inbox).type = type
    /\ sv_inbox' = Tail(sv_inbox)

\* what the caller of GetNip05 is to get: the dispatcher's result, None when
\* the dispatcher is dead, drops the reply or takes longer than the
\* Supervisor waits
ExpectedNip05 ==
    IF /\ sv_last.dispatcher = "running"
       /\ sv_last.outcome = "replies"
       /\ sv_last.latency <= SupervisorNip05Timeout
    THEN get_nip05(sv_last.metadata)
    ELSE None

\* C26: every Publish the Supervisor handles is cast to the dispatcher
\* exactly once with the report it carried, delivered or not; every GetNip05
\* it answers is answered with the dispatcher's result, or with None when the
\* dispatcher timed out, dropped the reply or is dead; in each case handle
\* returns Ok and the Supervisor keeps running.
C26_BestEffortForwarding ==
    /\ [](sv_status # "failed")
    /\ [](sv_last.type = "Publish" =>
            /\ sv_last.result = "Ok"
            /\ sv_last.cast = <<[report |-> sv_last.value,
                                 delivered |-> sv_last.dispatcher = "running"]>>)
    /\ [](sv_last.type = "GetNip05" =>
            /\ sv_last.result = "Ok"
            /\ sv_last.cast = <<>>
            /\ sv_last.reply.sent => sv_last.reply.value = ExpectedNip05)
    /\ [][SupervisorHandles("Publish") =>
            /\ sv_last'.type = "Publish"
            /\ sv_last'.value = Head(sv_inbox).value
            /\ sv_last'.dispatcher = children["event_dispatcher"]
            /\ sv_status' = "running"]_vars
    /\ [][SupervisorHandles("GetNip05") =>
            /\ sv_last'.type = "GetNip05"
            /\ sv_last'.dispatcher = children["event_dispatcher"]
            /\ sv_status' = "running"]_vars

\* a GetNip05 answered with None because the dispatcher had failed, handled
\* while the Supervisor runs on
C26_Witness ==
    /\ sv_last.type = "GetNip05"
    /\ sv_last.dispatcher = "failed"
    /\ sv_last.reply = [sent |-> TRUE, value |-> None]
    /\ sv_status = "running"
    /\ sv_sent = MaxRequests
    /\ sv_inbox = <<>>


\* how many events of one kind the Supervisor has still to handle
RECURSIVE PendingEvents(_, _)
PendingEvents(events, kind) ==
    IF events = <<>> THEN 0
    ELSE (IF Head(events).event = kind THEN 1 ELSE 0)
             + PendingEvents(Tail(events), kind)

FailedChildren == {child \in Children : children[child] = "failed"}

\* the step by which the Supervisor takes the supervision event at the head
SupervisorHandlesEvent(kind) ==
    /\ sv_events # <<>>
    /\ Head(sv_events).event = kind
    /\ sv_events' = Tail(sv_events)

SupervisorHandlesMessage ==
    \/ SupervisorPublish
    \/ \E answer \in DispatcherAnswers, timeout \in CallerTimeouts :
           SupervisorGetNip05(answer, timeout)

-----------------------------------------------------------------------------
(* Properties of the ServiceManager of start_server *)

TerminationPending == PendingEvents(sv_events, "ActorTerminated") > 0

\* C28: when a child of the Supervisor terminates, the Supervisor stops
\* itself, and once it has stopped the manager's token is eventually
\* cancelled and listen_stop_signals returns, whatever the HTTP server task
\* does.
C28_ChildTerminationShutsDown ==
    /\ [](TerminationPending => <>(sv_status = "stopped"))
    /\ []((sv_status = "stopped" /\ main_pc = "listen")
            => <>(root_token /\ main_pc = "returned"))

\* the part that holds: the Supervisor that is told of a terminated child
\* stops, and its other children with it
C28_SupervisorStops ==
    /\ [](TerminationPending => <>(sv_status = "stopped"))
    /\ [][SupervisorHandlesEvent("ActorTerminated") => sv_status' = "stopping"]_vars
    /\ [](sv_status = "stopped" => \A child \in Children : children[child] # "running")

\* the state the process is left in: the Supervisor stopped after a child
\* terminated, the HTTP server serving, the token not cancelled and
\* listen_stop_signals waiting
C28_ServingWithoutSupervisor ==
    /\ sv_status = "stopped"
    /\ http_server = "serving"
    /\ ~root_token
    /\ ~signalled
    /\ main_pc = "listen"


C31_StopReturnsByDeadline ==
    [](main_pc = "stop" => <>(main_pc = "returned"))

\* the part that holds: the HTTP server task ends once the token is
\* cancelled, and stop() returns only when both tracked tasks have ended
C31_StopAwaitsTrackedTasks ==
    /\ []((root_token /\ http_server = "serving") => <>(http_server = "ended"))
    /\ [][main_pc' = "returned" /\ main_pc # "returned" => TrackerEmpty]_vars

\* the state stop() is left in: the token cancelled, the HTTP server task
\* ended, the cleaning task gone, the Supervisor running and tracked
C31_StopWaitsForever ==
    /\ main_pc = "stop"
    /\ root_token
    /\ http_server = "ended"
    /\ cleaner = "done"
    /\ sv_status = "running"
    /\ sv_events = <<>>

\* C32: once the manager's token is cancelled, the Supervisor that
\* spawn_actor returned is eventually sent a stop, whether the cleaning task
\* sees the cancellation before or after it receives the actor.
C32_SpawnedActorIsStopped ==
    []((root_token /\ sv_status = "running") => <>(sv_status # "running"))

\* the part that holds: the cleaning task that holds the actor when it sees
\* the cancellation stops it
C32_HeldActorIsStopped ==
    /\ []((root_token /\ cleaner = "holding" /\ sv_status = "running")
            => <>(sv_status # "running"))
    /\ [][(cleaner = "holding" /\ cleaner' = "done") => sv_status' # "running"]_vars

\* the cleaning task ended on the cancellation without having received the
\* Supervisor, which runs on
C32_ActorMissed ==
    /\ root_token
    /\ cleaner = "done"
    /\ sv_status = "running"
    /\ main_pc = "stop"
    /\ http_server \in {"failed", "ended"}


-----------------------------------------------------------------------------
(* Properties of the dispatcher's end *)

DispatcherEnded == dsp_status \in {"stopped", "failed"}

UncancelledWorkers == {w \in LiveWorkers : ~workers[w].cancelled}

\* C33: in no state has the dispatcher ended, for whatever reason, while a
\* subscription worker is alive with its token not cancelled; and once the
\* dispatcher stops or has ended, its workers eventually end.
C33_CancellationReachesWorker ==
    /\ [](DispatcherEnded => UncancelledWorkers = {})
    /\ [](dsp_status # "running" => <>(LiveWorkers = {}))

\* the part that holds: a dispatcher stopped through post_stop leaves no
\* worker alive, the worker of a failed dispatcher has its token cancelled
\* once the state is dropped and ends, and a worker whose token another
\* cancelled ends without a Reconnect
C33_StopCancelsWorker ==
    /\ [](dsp_status = "stopped" => LiveWorkers = {})
    /\ [](dsp_status # "running" => <>(LiveWorkers = {}))
    /\ [](\A w \in Workers :
            workers[w].ended_by = "cancellation" => workers[w].reconnects = 0)

\* the dispatcher has failed, its state is not dropped yet, and its worker
\* listens with its token not cancelled
C33_WorkerOutlivesDispatcher ==
    /\ dsp_status = "failed"
    /\ subscription_task_manager # None
    /\ workers[subscription_task_manager[1]].status = "listening"
    /\ ~workers[subscription_task_manager[1]].cancelled

\* C35: no subscription worker ever panics, whatever the dispatcher does
\* while a relay notification arrives.
C35_WorkerNeverPanics ==
    \A w \in Workers : workers[w].status # "panicked"

\* the part that holds: with the token cancelled before the notification the
\* closure ends the loop, so a worker panics only on a dispatcher that failed
\* and whose state was not dropped yet when the event arrived
C35_PanicOnlyAfterFailure ==
    /\ [](\A w \in Workers :
            workers[w].status = "panicked" => dsp_status = "failed")
    /\ [][\A w \in Workers :
            (workers[w].status # "panicked" /\ workers'[w].status = "panicked")
                => (~workers[w].cancelled /\ dsp_status = "failed")]_vars
    /\ [](dsp_status \in {"stopping", "stopped"} =>
            \A w \in Workers : workers[w].status # "panicked")


-----------------------------------------------------------------------------
(* Properties of the output port's buffer *)

EventReceivedIsNext ==
    /\ rd_inbox # <<>>
    /\ Head(rd_inbox).type = "EventReceived"

\* C34: the dispatcher can always send the event it handles on the port,
\* whatever its subscribers have taken; and a subscriber that fell more than
\* BroadcastBufferSize values behind keeps its subscription, so that it
\* receives what is published afterwards.
C34_BoundedNonBlockingBroadcast ==
    /\ [](EventReceivedIsNext => ENABLED EventReceived)
    /\ [](\A subscriber \in PortSubscribers :
            sub_lagged[subscriber] => sub_status[subscriber] = "active")

\* the part that holds: the send never waits for a subscriber, the port keeps
\* every value, and a subscriber that goes on after falling behind goes on
\* from the oldest of the BroadcastBufferSize values still held
C34_SendNeverBlocks ==
    /\ [](EventReceivedIsNext => ENABLED EventReceived)
    /\ [][EventReceivedIsNext /\ rd_inbox' = Tail(rd_inbox) =>
            /\ port_log' = Append(port_log, Head(rd_inbox).value)
            /\ UNCHANGED <<sub_status, sub_cursor, sub_inbox>>]_vars
    /\ [][\A subscriber \in PortSubscribers :
            (~sub_lagged[subscriber] /\ sub_lagged'[subscriber]
                /\ sub_status'[subscriber] = "active")
              => sub_cursor'[subscriber] = Len(port_log) - BroadcastBufferSize + 1]_vars

\* GiftUnwrapper fell behind the buffer and its subscription ended with
\* events published that it never received
C34_SubscriptionLost ==
    /\ sub_lagged["gift_unwrapper"]
    /\ sub_status["gift_unwrapper"] = "closed"
    /\ sub_cursor["gift_unwrapper"] <= Len(port_log)


-----------------------------------------------------------------------------
(* Properties of the links in the chat message *)

\* C36: in the message in the channel the reported link is of the reported
\* pubkey and the reporter link is of the reporter pubkey, whatever the two
\* lookups gave.
C36_LinksNameTheRightKey ==
    chat_posted # NoMessage =>
        /\ chat_posted.content.text.reported.of
               = ReportTarget_pubkey(chat_posted.request.target)
        /\ chat_posted.content.text.reporter.of
               = chat_posted.request.reporter_pubkey

\* the part that holds: the reported link is always of the reported pubkey,
\* and the reporter link is of the reporter pubkey unless it is the hex
\* fallback of a failed lookup
C36_ReportedLinkIsRight ==
    chat_posted # NoMessage =>
        /\ chat_posted.content.text.reported.of
               = ReportTarget_pubkey(chat_posted.request.target)
        /\ chat_posted.content.text.reporter.form # "hex" =>
               chat_posted.content.text.reporter.of
                   = chat_posted.request.reporter_pubkey

\* a message whose reporter link is the hex of the reported pubkey, which is
\* not the reporter's
C36_ReportedShownAsReporter ==
    /\ chat_posted # NoMessage
    /\ chat_posted.content.text.reporter
           = Link("hex", ReportTarget_pubkey(chat_posted.request.target))
    /\ chat_posted.request.reporter_pubkey
           # ReportTarget_pubkey(chat_posted.request.target)


\* C37: every write_message that was started reaches its post, whatever the
\* two lookups gave, and ends right after it: the call returns only through
\* the post, and the post is made once per call.
C37_EveryReportIsPosted ==
    /\ [](wm_pc # "idle" => <>(wm_pc = "post"))
    /\ [](wm_pc = "post" => <>(wm_pc = "idle"))
    /\ [][(wm_pc # "idle" /\ wm_pc' = "idle") => wm_pc = "post"]_vars
    /\ [][wm_pc = "post" => wm_pc' \in {"post", "idle"}]_vars
    /\ [][(wm_pc # "post" /\ wm_pc' = "post") =>
            (wm_pc = "reporter_lookup" /\ wm_request' = wm_request)]_vars

\* a message got to the channel although both lookups had timed out
C37_Witness ==
    /\ wm_pc = "idle"
    /\ wm_count = 1
    /\ chat_posted # NoMessage
    /\ chat_posted.content.text.reported.form = "hex"
    /\ chat_posted.content.text.reporter.form = "hex"


-----------------------------------------------------------------------------
(* Properties of the sinks' failures *)

EnqueuerPublishesNext ==
    /\ ee_inbox # <<>>
    /\ EventEnqueuer_publishes(Head(ee_inbox))

WriterWritesNext ==
    /\ sw_inbox # <<>>
    /\ SlackWriter_writes(Head(sw_inbox))

\* C38: a publish_event that fails adds 1 to events_enqueued_error and
\* nothing to events_enqueued; a post to the channel that fails adds 1 to
\* slack_write_message_error and nothing to slack_write_message; each sink
\* handles its next request afterwards, and neither touches the other's
\* inbox or counters.
C38_SinkFailuresCounted ==
    /\ [][(EnqueuerPublishesNext /\ Enqueue(FALSE)) =>
            /\ events_enqueued_error' = events_enqueued_error + 1
            /\ UNCHANGED events_enqueued]_vars
    /\ [][(WriterWritesNext /\ Write(FALSE)) =>
            /\ slack_write_message_error' = slack_write_message_error + 1
            /\ UNCHANGED slack_write_message]_vars
    /\ [](ee_inbox # <<>> => ENABLED Enqueue(TRUE))
    /\ [](sw_inbox # <<>> => ENABLED Write(TRUE))

\* the part that holds: publish failures are counted as stated, both sinks
\* go on with their inboxes, and a step of one sink leaves the other's inbox
\* and counters alone
C38_EnqueueFailuresCounted ==
    /\ [][(EnqueuerPublishesNext /\ Enqueue(FALSE)) =>
            /\ events_enqueued_error' = events_enqueued_error + 1
            /\ UNCHANGED events_enqueued]_vars
    /\ [](ee_inbox # <<>> => ENABLED Enqueue(TRUE))
    /\ [](sw_inbox # <<>> => ENABLED Write(TRUE))
    /\ [][(ee_inbox # <<>> /\ ee_inbox' = Tail(ee_inbox)) =>
            UNCHANGED <<sw_inbox, post_calls, slack_write_message,
                        slack_write_message_error>>]_vars
    /\ [][(sw_inbox # <<>> /\ sw_inbox' = Tail(sw_inbox)) =>
            UNCHANGED <<ee_inbox, publish_calls, events_enqueued,
                        events_enqueued_error>>]_vars
    /\ [](slack_write_message_error = 0)

\* SlackWriter has handled a pubkey request after EventEnqueuer counted a
\* failed publish
C38_WriterAfterEnqueueFailure ==
    /\ events_enqueued_error = 1
    /\ events_enqueued = 0
    /\ slack_write_message = 1
    /\ sw_inbox = <<>>


-----------------------------------------------------------------------------
(* Properties of wrapping *)

C40_SealTimestampWindow ==
    seal.called =>
        /\ seal.created_at \in Nat
        /\ seal.created_at <= seal.now
        /\ seal.now - seal.created_at < TwoDays
        /\ seal.draw % TwoDays <= seal.now =>
               seal.created_at = seal.now - (seal.draw % TwoDays)

\* a call with a clock within two days of the epoch and a draw whose
\* remainder exceeds it: the subtraction stops at zero
C40_Witness ==
    /\ seal.called
    /\ seal.now = 172798
    /\ seal.draw = 345599
    /\ seal.created_at = 0

====
